---- MODULE Spec2Model ----
(***************************************************************************)
(* A model of dysgu's streaming front end: the GenomeScanner of            *)
(* coverage.pyx (binned coverage, over-coverage suppression, whole-genome  *)
(* and region-restricted scans) and the graph builder of graph.pyx         *)
(* (PairedEndScoper, SiteAdder, add_to_graph, template edges).             *)
(* Depths are kept in hundredths of a read (one base of a 100-bp bin).     *)
(***************************************************************************)
EXTENDS Integers, Sequences, FiniteSets, TLC

\* ------------------------------------------------------------------------
\* Bounds of the model
\* ------------------------------------------------------------------------
MaxReads == 4
MaxCov == 2
MaxSample == 2
RefLength == 3000

\* ------------------------------------------------------------------------
\* Program constants
\* ------------------------------------------------------------------------
BinSize == 100
Pad == 1000
FilterMask == 1540
InformativeMask == 1800

Chroms == {0, 1}

\* graph.pyx
DISCORDANT == 0
SPLIT == 1
DELETION == 2
INSERTION == 3
BREAKEND == 4
InsChrom == 10000000
ExactDist == 35
WalkSteps == 6
MaxClipPartners == 5
MinimizerDist == 10
MinimizerSupportThresh == 2
MinimizerWindow == 7
SiteClusterDist == 50
SiteScopeDist == 500
clip_l == 21
min_sv_size == 30
mapq_thresh == 1
WindowLength == 10
SplitClipLength == 15
MateClipLength == 20
MinInserts == 100
DefaultInsertMedian == 300
DefaultInsertStdev == 150
Mads == 8

\* runtime parameters of construct_graph, and the size of a run
MaxDist == 200
ClstDist == 100
NRef == 2
MaxNodes == 4
PartNodes == 4
MaxPartEdges == 3
min_support == 3
MaxInserts == 102
MaxOther == 1
MaxBuff == 2
MaxBufReads == 3
MaxBufNodes == 4
MaxFind == 3
MaxClip == 7

\* construct_graph parameter
contigs == TRUE

\* ------------------------------------------------------------------------
\* Helpers
\* ------------------------------------------------------------------------
RECURSIVE BitAnd(_, _)
BitAnd(a, b) ==
    IF a = 0 \/ b = 0 THEN 0
    ELSE ((a % 2) * (b % 2)) + 2 * BitAnd(a \div 2, b \div 2)

Abs(x) == IF x < 0 THEN -x ELSE x

Max2(a, b) == IF a >= b THEN a ELSE b
Min2(a, b) == IF a <= b THEN a ELSE b

RECURSIVE Concat(_)
Concat(ss) == IF ss = <<>> THEN <<>> ELSE Head(ss) \o Concat(Tail(ss))

RECURSIVE SetToSeq(_)
SetToSeq(S) ==
    IF S = {} THEN <<>>
    ELSE LET m == CHOOSE x \in S : \A y \in S : x <= y
         IN <<m>> \o SetToSeq(S \ {m})

\* ------------------------------------------------------------------------
\* The alignment records an input file can hold, in coordinate order.
\* cigar / seq say whether cigartuples / seq are present; sa lists the
\* (chrom, pos) entries of the SA tag.
\* ------------------------------------------------------------------------
Aln(qn, flag, rname, pos, aend, cigar, seq, rnext, pnext, sa) ==
    [qn |-> qn, flag |-> flag, rname |-> rname, pos |-> pos, aend |-> aend,
     cigar |-> cigar, seq |-> seq, rnext |-> rnext, pnext |-> pnext, sa |-> sa]

Templates ==
    << Aln(1, 65,   0, 10,   60,   TRUE,  TRUE,  0, 2500, <<>>),
       Aln(2, 65,   0, 50,   150,  TRUE,  TRUE,  0, 50,   <<>>),
       Aln(3, 321,  0, 60,   160,  TRUE,  TRUE,  0, 60,   <<>>),
       Aln(4, 1089, 0, 70,   170,  TRUE,  TRUE,  0, 70,   <<>>),
       Aln(5, 65,   0, 99,   199,  TRUE,  TRUE,  0, 99,   <<>>),
       Aln(6, 65,   0, 100,  250,  TRUE,  TRUE,  0, 100,  <<>>),
       Aln(7, 69,   0, 120,  120,  FALSE, TRUE,  0, 120,  <<>>),
       Aln(8, 65,   0, 150,  250,  TRUE,  FALSE, 0, 150,  <<>>),
       Aln(13, 65,  0, 180,  280,  TRUE,  TRUE,  0, 180,  <<>>),
       Aln(1, 129,  0, 2500, 2600, TRUE,  TRUE,  0, 10,   <<>>),
       Aln(9, 65,   1, 0,    100,  TRUE,  TRUE,  1, 0,    <<<<0, 2500>>>>),
       Aln(10, 65,  1, 30,   130,  TRUE,  TRUE,  1, 30,   <<>>),
       Aln(11, 577, 1, 40,   140,  TRUE,  TRUE,  1, 40,   <<>>),
       Aln(12, 65,  1, 1500, 1600, TRUE,  TRUE,  1, 1500, <<>>) >>

Streams ==
    { [i \in 1..Len(ids) |-> Templates[ids[i]]] :
        ids \in { SetToSeq(S) : S \in { T \in SUBSET (1..Len(Templates)) :
                                          Cardinality(T) <= MaxReads } } }

\* include_regions files: none, one window of chromosome 0, a window on each
\* chromosome, one region per chromosome covering the whole reference.
FullRegions == << <<0, 0, RefLength>>, <<1, 0, RefLength>> >>

RegionChoices ==
    { <<>>,
      << <<0, 0, 130>> >>,
      << <<0, 0, 130>>, <<1, 25, 35>> >>,
      FullRegions }

VARIABLES
    input,            \* the alignment file: a sequence of records
    stdin,            \* GenomeScanner.no_tell
    regions_only,     \* GenomeScanner.regions_only
    include_regions,  \* GenomeScanner.include_regions / overlap_regions
    max_cov,          \* GenomeScanner.max_cov
    gs,               \* the remaining GenomeScanner fields
    pc,               \* position of the scan
    nxt,              \* index of the next record of the stream to read
    n_sampled,        \* len(approx_read_length_l) in get_read_length
    itv,              \* merged intervals of the region pass
    k,                \* index of the interval being fetched
    j,                \* records of the current fetch already read
    tell,             \* local tell of _get_reads
    seen_reads,       \* seen_reads of the region pass
    fed,              \* ids handed to _add_to_bin_buffer, in call order
    overcov,          \* ids discarded by the over-coverage rule
    emitted           \* batches yielded so far

svars == <<input, stdin, regions_only, include_regions, max_cov, gs, pc, nxt,
           n_sampled, itv, k, j, tell, seen_reads, fed, overcov, emitted>>

cfgvars == <<input, stdin, regions_only, include_regions, max_cov>>

VARIABLES
    G,                \* Py_SimpleGraph: node count and edge list
    node_to_name,     \* NodeToName: one tuple per append
    pe_scope,         \* PairedEndScoper
    template_edges,   \* TemplateEdges.templates_s
    clip_scope,       \* ClipScoper
    site_adder,       \* SiteAdder (sites_queue, scope, sites_index_r, ...)
    has_sites,        \* construct_graph was given sites
    mm_only,          \* construct_graph parameter
    paired_end,       \* construct_graph parameter
    minimizer_support_thresh,  \* construct_graph parameter, kept by ClipScoper
    gpc,              \* position of construct_graph
    ge,               \* index in GEvents / Records of the last alignment processed
    node_enum         \* per add_to_graph call: node, read_enum called with and final

gvars == <<G, node_to_name, pe_scope, template_edges, clip_scope, site_adder,
           has_sites, mm_only, paired_end, minimizer_support_thresh, gpc, ge,
           node_enum>>

gcfgvars == <<has_sites, mm_only, paired_end, minimizer_support_thresh>>

VARIABLES
    comp_edges,       \* edge list of the graph handed to proc_component
    comp_cigar,       \* cigar_index of node_to_name, per node
    component,        \* the component handed to proc_component
    ppc,              \* position of proc_component
    todo,             \* nodes that "for u in nodes" has not reached
    seen,             \* seen of get_partitions
    parts,            \* parts of get_partitions
    support_estimate, \* support_estimate of proc_component
    counts,           \* counts of count_support_between
    self_counts,      \* self_counts of count_support_between
    jobs              \* jobs of break_large_component, each with its pair

pvars == <<comp_edges, comp_cigar, component, ppc, todo, seen, parts,
           support_estimate, counts, self_counts, jobs>>

VARIABLES
    inserts,          \* inserts of get_read_length, value -> occurrences
    n_lengths,        \* len(approx_read_length_l)
    ipc,              \* position of get_read_length
    iargs,            \* read_len, insert_median, insert_stdev as passed
    insert_params     \* what get_read_length returns

ivars == <<inserts, n_lengths, ipc, iargs, insert_params>>

VARIABLES
    buff_size,        \* GenomeScanner.buff_size
    no_tell,          \* GenomeScanner.no_tell
    from_regions,     \* _get_reads takes the region branch
    first,            \* GenomeScanner.first
    read_buffer,      \* GenomeScanner.read_buffer: the node names it holds
    scan_tell,        \* local tell of _get_reads
    rec_tell,         \* <<tell>> of the record being made into nodes, or <<>>
    n_recs,           \* records read so far
    bpc               \* "run", or "overflow" once BufferError was raised

bvars == <<buff_size, no_tell, from_regions, first, read_buffer, scan_tell,
           rec_tell, n_recs, bpc>>

VARIABLES
    fscope,           \* the PairedEndScoper of the find_other_nodes runs
    fcall,            \* <<>>, or <<the call whose add_item is still to come>>
    fe,               \* index of the last breakpoint pair looked up
    fn                \* nodes added to the scoper so far

fvars == <<fscope, fcall, fe, fn>>

nonscan == <<gvars, pvars, ivars, bvars, fvars>>

nongraph == <<pvars, ivars, bvars, fvars>>

vars == <<svars, gvars, pvars, ivars, bvars, fvars>>

\* ------------------------------------------------------------------------
\* coverage.pyx
\* ------------------------------------------------------------------------
NBins == (RefLength \div BinSize) + 1

ZeroDepth == [b \in 0..(NBins - 1) |-> 0]

\* add_coverage: returns the updated array; the C function returns
\* chrom_depth[bin_start] of it (AddCoverageBin names that cell).
AddCoverageBin(start) == Max2(start \div BinSize, 0)

add_coverage(start, end, chrom_depth) ==
    LET bin_start == Max2(start \div BinSize, 0)
        bin_end == Min2(end \div BinSize, NBins - 1)
        ol_start == (bin_start + 1) * BinSize - start
        ol_end == end - bin_end * BinSize
    IN [b \in 0..(NBins - 1) |->
          chrom_depth[b]
          + (IF b = bin_start THEN ol_start ELSE 0)
          + (IF bin_start # bin_end /\ b = bin_end THEN ol_end ELSE 0)
          + (IF bin_start # bin_end /\ bin_end - bin_start > 1
                /\ b > bin_start /\ b < bin_end THEN BinSize ELSE 0)]

\* io_funcs.intersecter_int_chrom(overlap_regions, rname, apos, apos + 1)
InRoi(rname, apos) ==
    /\ include_regions # <<>>
    /\ \E r \in 1..Len(include_regions) :
          /\ include_regions[r][1] = rname
          /\ include_regions[r][2] <= apos
          /\ apos < include_regions[r][3]

\* the filter with the CIGAR / sequence test left out
FilteredFlagOnly(a) == BitAnd(a.flag, FilterMask) # 0

\* the flag / CIGAR / sequence filter of _add_to_bin_buffer
Filtered(a) == BitAnd(a.flag, FilterMask) # 0 \/ ~a.cigar \/ ~a.seq

\* the same-bin branch without the over-coverage test
SameBinNoCap(s, id, a, t, current_cov, in_roi) ==
    [s EXCEPT !.current_bin = Append(@, <<id, t>>)]

\* the branch "record falls in the current bin"
SameBin(s, id, a, t, current_cov, in_roi) ==
    IF current_cov >= max_cov * BinSize /\ ~in_roi
    THEN LET cleared == <<>>
         IN [s EXCEPT !.current_bin = cleared,
                      !.reads_dropped = @ + (IF Len(s.current_bin) > 0
                                             THEN Len(cleared) ELSE 0) + 1]
    ELSE [s EXCEPT !.current_bin = Append(@, <<id, t>>)]

\* the new-bin branch that keeps the records of the staged bin
NewBinKeepsOld(s, id, a, t, current_cov, in_roi) ==
    [s EXCEPT !.staged_reads =
                  IF Len(s.current_bin) # 0
                     /\ (current_cov < max_cov * BinSize \/ in_roi)
                  THEN Append(@, s.current_bin) ELSE @,
              !.current_chrom = a.rname,
              !.current_pos = a.pos \div BinSize,
              !.current_bin = Append(s.current_bin, <<id, t>>)]

\* the branch "new staged bin"
NewBin(s, id, a, t, current_cov, in_roi) ==
    [s EXCEPT !.staged_reads =
                  IF Len(s.current_bin) # 0
                     /\ (current_cov < max_cov * BinSize \/ in_roi)
                  THEN Append(@, s.current_bin) ELSE @,
              !.current_chrom = a.rname,
              !.current_pos = a.pos \div BinSize,
              !.current_bin = << <<id, t>> >>]

_add_to_bin_buffer(s, id, a, t) ==
    IF Filtered(a) THEN s
    ELSE LET rname == a.rname
             apos == a.pos
             bin_pos == apos \div BinSize
             s1 == [s EXCEPT !.current_chrom = rname,
                             !.depth_d[rname] = add_coverage(apos, a.aend, @)]
             current_cov == s1.depth_d[rname][AddCoverageBin(apos)]
             in_roi == InRoi(rname, apos)
         IN IF rname = s1.current_chrom /\ bin_pos = s1.current_pos
            THEN SameBin(s1, id, a, t, current_cov, in_roi)
            ELSE NewBin(s1, id, a, t, current_cov, in_roi)

\* ids the over-coverage rule discards when record id is handed in
OverCovDiscards(s, id, a) ==
    IF Filtered(a) THEN {}
    ELSE LET s1 == [s EXCEPT !.depth_d[a.rname] = add_coverage(a.pos, a.aend, @)]
             current_cov == s1.depth_d[a.rname][AddCoverageBin(a.pos)]
         IN IF a.pos \div BinSize = s.current_pos
               /\ current_cov >= max_cov * BinSize /\ ~InRoi(a.rname, a.pos)
            THEN {s.current_bin[x][1] : x \in 1..Len(s.current_bin)} \cup {id}
            ELSE {}

\* while len(self.staged_reads) > 0: yield self.staged_reads.popleft()
Drained(s) == [s EXCEPT !.staged_reads = <<>>]

\* ------------------------------------------------------------------------
\* merge_intervals and the region pass
\* ------------------------------------------------------------------------
IvLess(x, y) == x[1] < y[1] \/ (x[1] = y[1] /\ x[2] < y[2])

RECURSIVE InsertSorted(_, _)
InsertSorted(x, ss) ==
    IF ss = <<>> THEN <<x>>
    ELSE IF IvLess(x, Head(ss)) THEN <<x>> \o ss
    ELSE <<Head(ss)>> \o InsertSorted(x, Tail(ss))

RECURSIVE SortIntervals(_)
SortIntervals(ss) ==
    IF ss = <<>> THEN <<>>
    ELSE InsertSorted(ss[Len(ss)], SortIntervals(SubSeq(ss, 1, Len(ss) - 1)))

RECURSIVE MergeSorted(_, _)
MergeSorted(merged, rest) ==
    IF rest = <<>> THEN merged
    ELSE LET higher == Head(rest)
         IN IF merged = <<>> THEN MergeSorted(<<higher>>, Tail(rest))
            ELSE LET lower == merged[Len(merged)]
                 IN IF higher[1] # lower[1]
                    THEN MergeSorted(Append(merged, higher), Tail(rest))
                    ELSE IF higher[2] <= lower[3]
                    THEN MergeSorted(
                           [merged EXCEPT ![Len(merged)] =
                               <<lower[1], lower[2], Max2(higher[3], lower[3])>>],
                           Tail(rest))
                    ELSE MergeSorted(Append(merged, higher), Tail(rest))

merge_intervals(intervals) == MergeSorted(<<>>, SortIntervals(intervals))

\* input_bam.fetch(c, s, e): the records of chromosome c that overlap [s, e),
\* in file order
Fetch(c, s, e) ==
    SetToSeq({ i \in 1..Len(input) :
                 /\ input[i].rname = c
                 /\ input[i].pos < e
                 /\ (input[i].aend > s \/ (input[i].pos >= s)) })

RECURSIVE SaWindows(_)
SaWindows(sa) ==
    IF sa = <<>> THEN <<>>
    ELSE LET pos2 == Head(sa)[2] - Pad
         IN << <<Head(sa)[1], IF pos2 < 0 THEN 0 ELSE pos2, pos2 + Pad>> >>
            \o SaWindows(Tail(sa))

MateWindows(a) ==
    IF BitAnd(a.flag, InformativeMask) = 0
    THEN LET p1 == a.pnext - Pad
         IN << <<a.rnext, IF p1 < 0 THEN 0 ELSE p1, a.pnext + Pad>> >>
            \o SaWindows(a.sa)
    ELSE <<>>

RECURSIVE WindowsOf(_)
WindowsOf(ids) ==
    IF ids = <<>> THEN <<>>
    ELSE MateWindows(input[Head(ids)]) \o WindowsOf(Tail(ids))

RECURSIVE RegionWindows(_)
RegionWindows(regions) ==
    IF regions = <<>> THEN <<>>
    ELSE WindowsOf(Fetch(Head(regions)[1], Head(regions)[2], Head(regions)[3]))
         \o RegionWindows(Tail(regions))

intervals_to_check == include_regions \o RegionWindows(include_regions)

\* ------------------------------------------------------------------------
\* Initial state: GenomeScanner.__init__
\* ------------------------------------------------------------------------
InitScanner ==
    [current_bin |-> <<>>, current_chrom |-> 0, current_pos |-> 0,
     depth_d |-> [c \in Chroms |-> ZeroDepth],
     staged_reads |-> <<>>, reads_dropped |-> 0]

\* ========================================================================
\* graph.pyx
\* ========================================================================

\* what process_alignment is called with and hands to add_to_graph for one
\* alignment: clipL / clipR are the minimizers of a soft clip of at least
\* clip_length bases ({} when the clip is shorter)
Ev(qname, flag, chrom, pos, event_pos, chrom2, pos2, read_enum, cigar_index, len, qstart, clipL, clipR, skip) ==
    [qname |-> qname, flag |-> flag, chrom |-> chrom, pos |-> pos,
     event_pos |-> event_pos, chrom2 |-> chrom2, pos2 |-> pos2,
     read_enum |-> read_enum, cigar_index |-> cigar_index, len |-> len,
     qstart |-> qstart, clipL |-> clipL, clipR |-> clipR, skip |-> skip]

GEvents ==
    << Ev(1, 65,   0, 1000, 1000, 1, 1000, DISCORDANT, -1, 0, 0, {}, {}, FALSE),
       Ev(1, 129,  0, 1005, 1005, 1, 1003, DISCORDANT, -1, 0, 0, {}, {}, FALSE),
       Ev(2, 65,   0, 1030, 1030, 0, 1130, DELETION, 1, 100, 0, {}, {}, FALSE),
       Ev(3, 65,   0, 1030, 1033, 0, 1133, DELETION, 1, 100, 0, {}, {}, FALSE),
       Ev(4, 65,   0, 1030, 1031, 0, 1031, INSERTION, 1, 50, 0, {}, {}, FALSE),
       Ev(5, 73,   0, 1030, 1030, InsChrom, 1030, BREAKEND, -1, 0, 30,
          {1, 2}, {}, FALSE),
       Ev(6, 73,   0, 1035, 1035, InsChrom, 1035, BREAKEND, -1, 0, 30,
          {1, 2}, {3}, FALSE),
       Ev(7, 2121, 0, 1300, 1300, 0, 1300, SPLIT, -1, 0, 0, {}, {}, FALSE),
       Ev(8, 65,   1, 1000, 1000, 0, 1000, SPLIT, 0, 0, 40, {}, {}, FALSE),
       Ev(8, 2113, 1, 1003, 1003, 0, 1004, SPLIT, 0, 0, 0, {}, {}, FALSE),
       Ev(8, 2113, 1, 1003, 1100, 0, 1030, SPLIT, 2, 0, 90, {}, {}, FALSE),
       Ev(9, 145,  1, 1400, 1400, 1, 1000, DISCORDANT, -1, 0, 0, {}, {}, FALSE) >>

Site(id, chrom, start, chrom2, end, svtype, svlen) ==
    [id |-> id, chrom |-> chrom, start |-> start, chrom2 |-> chrom2,
     end |-> end, svtype |-> svtype, svlen |-> svlen]

NoSites == [c \in Chroms |-> <<>>]

SiteChoices ==
    { NoSites,
      [c \in Chroms |-> IF c = 1
          THEN << Site(1, 1, 1010, 1, 1110, "DEL", 100) >> ELSE <<>>],
      [c \in Chroms |-> IF c = 0
          THEN << Site(1, 0, 800, 0, 800, "INS", 60),
                  Site(2, 0, 1020, 1, 1000, "BND", 0) >>
          ELSE << Site(3, 1, 990, 1, 990, "INS", 40),
                  Site(4, 1, 1390, 1, 1500, "DEL", 110) >>] }


\* ------------------------------------------------------------------------
\* Py_SimpleGraph (map_set_utils): dense node ids, an edge list.  addEdge
\* is taken in its weakest form, a plain append: on a pair that hasEdge
\* rejects it coincides with an addEdge that ignores duplicate pairs, so
\* whatever the callers' hasEdge tests establish holds for both.
\* ------------------------------------------------------------------------
addNode(g) == [g EXCEPT !.n = @ + 1]

\* NodeToName.append without the push_back calls
appendNothing(ntn, a, b, c, d, e, f, g) == ntn

\* NodeToName.append: one push_back per column, a tell of -1 kept as 0
append(ntn, a, b, c, d, e, f, g) ==
    Append(ntn, <<a, b, c, d, IF e = -1 THEN 0 ELSE e, f, g>>)

hasEdge(g, u, v) ==
    \E x \in 1..Len(g.edges) :
        \/ (g.edges[x][1] = u /\ g.edges[x][2] = v)
        \/ (g.edges[x][1] = v /\ g.edges[x][2] = u)

addEdge(g, u, v, w) == [g EXCEPT !.edges = Append(@, <<u, v, w>>)]

\* ------------------------------------------------------------------------
\* PairedEndScoper: loci and chrom_scope[c] are multimaps keyed by position,
\* kept as sequences in key order (equal keys in insertion order)
\* ------------------------------------------------------------------------
make_local_val(key, chrom2, pos2, node_name, read_enum, length_from_cigar) ==
    [key |-> key, chrom2 |-> chrom2, pos2 |-> pos2, node_name |-> node_name,
     read_enum |-> read_enum, length_from_cigar |-> length_from_cigar]

MMInsert(m, e) ==
    LET n == Cardinality({x \in 1..Len(m) : m[x].key <= e.key})
    IN SubSeq(m, 1, n) \o <<e>> \o SubSeq(m, n + 1, Len(m))

LowerBound(m, key) == Cardinality({x \in 1..Len(m) : m[x].key < key}) + 1

ScopeSlot(chrom2) == IF chrom2 = InsChrom THEN NRef ELSE chrom2

empty_scopes(pe) ==
    [pe EXCEPT !.chrom_scope = [c \in 0..NRef |-> <<>>], !.loci = <<>>]

\* map_set_utils.is_reciprocal_overlapping: each interval covers at least
\* half of the other
is_reciprocal_overlapping(x1, x2, y1, y2) ==
    LET a1 == Min2(x1, x2)
        a2 == Max2(x1, x2)
        b1 == Min2(y1, y2)
        b2 == Max2(y1, y2)
        overlap == Max2(0, Min2(a2, b2) - Max2(a1, b1))
    IN /\ 2 * overlap >= a2 - a1
       /\ 2 * overlap >= b2 - b1

TypeGate(read_enum, other_enum) ==
    \/ (read_enum = DELETION /\ other_enum = INSERTION)
    \/ (read_enum = INSERTION /\ other_enum = DELETION)

\* span_distance < 0.8
SpanClose(len1, len2) == 5 * Abs(len1 - len2) < 4 * Max2(len1, len2)

\* one neighbour of the forward walk; q.spd is the set of nodes for which
\* span_position_distance answers true in this call
FwdVisit(q, v, st) ==
    IF v.node_name = q.node_name THEN st
    ELSE IF q.current_chrom # q.chrom2
            \/ is_reciprocal_overlapping(q.current_pos, q.pos2, v.key, v.pos2)
    THEN LET sep == Abs(v.key - q.pos2)
             sep2 == Abs(v.pos2 - q.current_pos)
             st1 == [st EXCEPT !.sep = sep]
             exact == [st1 EXCEPT !.found_exact = Append(@, v.node_name)]
             dist == IF v.node_name \in q.spd
                     THEN [st1 EXCEPT !.found2 = Append(@, v.node_name)]
                     ELSE st1
         IN IF sep < MaxDist /\ sep2 < MaxDist
            THEN IF sep < ExactDist
                 THEN IF q.length_from_cigar > 0 /\ v.length_from_cigar > 0
                      THEN IF SpanClose(q.length_from_cigar, v.length_from_cigar)
                           THEN exact ELSE st1
                      ELSE exact
                 ELSE dist
            ELSE dist
    ELSE IF v.node_name \in q.spd
         THEN [st EXCEPT !.found2 = Append(@, v.node_name)]
         ELSE st

RECURSIVE ForwardWalk(_, _, _)
ForwardWalk(q, fs, st) ==
    IF st.steps >= WalkSteps THEN st
    ELSE LET v == fs[st.it]
         IN IF TypeGate(q.read_enum, v.read_enum)
            THEN ForwardWalk(q, fs, [st EXCEPT !.steps = @ + 1])
            ELSE LET s1 == FwdVisit(q, v, st)
                     s2 == [s1 EXCEPT !.it = @ + 1, !.steps = @ + 1]
                 IN IF s1.sep >= MaxDist THEN s1
                    ELSE IF s2.it > Len(fs) THEN s2
                    ELSE ForwardWalk(q, fs, s2)

\* one neighbour of the backward walk
BackVisit(q, v, st) ==
    IF v.node_name = q.node_name THEN st
    ELSE IF q.current_chrom # q.chrom2
            \/ is_reciprocal_overlapping(q.current_pos, q.pos2, v.key, v.pos2)
    THEN LET sep == Abs(v.key - q.pos2)
             sep2 == Abs(v.pos2 - q.current_pos)
             st1 == [st EXCEPT !.sep = sep]
             once == [st1 EXCEPT !.found_exact = Append(@, v.node_name)]
             twice == [once EXCEPT !.found_exact = Append(@, v.node_name)]
             dist == IF v.node_name \in q.spd
                     THEN [st1 EXCEPT !.found2 = Append(@, v.node_name)]
                     ELSE st1
         IN IF sep < MaxDist /\ v.chrom2 = q.chrom2 /\ sep2 < MaxDist
            THEN IF sep < ExactDist
                 THEN IF q.length_from_cigar > 0 /\ v.length_from_cigar > 0
                      THEN IF SpanClose(q.length_from_cigar, v.length_from_cigar)
                           THEN twice ELSE once
                      ELSE twice
                 ELSE dist
            ELSE dist
    ELSE IF v.node_name \in q.spd
         THEN [st EXCEPT !.found2 = Append(@, v.node_name)]
         ELSE st

RECURSIVE BackwardWalk(_, _, _)
BackwardWalk(q, fs, st) ==
    IF st.steps >= WalkSteps THEN st
    ELSE LET v == fs[st.it]
         IN IF TypeGate(q.read_enum, v.read_enum)
            THEN BackwardWalk(q, fs, [st EXCEPT !.steps = @ + 1])
            ELSE LET s1 == BackVisit(q, v, st)
                 IN IF s1.it = 1 \/ s1.sep >= MaxDist THEN s1
                    ELSE BackwardWalk(q, fs,
                            [s1 EXCEPT !.it = @ - 1, !.steps = @ + 1])

\* the search of find_other_nodes: the scoper after the call and the two
\* vectors found_exact and found2
SearchScopes(pe, q) ==
    LET pe1 == IF q.current_chrom # pe.local_chrom
               THEN empty_scopes([pe EXCEPT !.local_chrom = q.current_chrom])
               ELSE pe
    IN IF pe1.loci = <<>>
       THEN [pe |-> pe1, found_exact |-> <<>>, found2 |-> <<>>]
       ELSE
       LET lb == LowerBound(pe1.loci, q.current_pos - ClstDist)
           pe2 == [pe1 EXCEPT !.loci = SubSeq(@, lb, Len(@))]
           fs == pe2.chrom_scope[ScopeSlot(q.chrom2)]
           start == LowerBound(fs, q.pos2)
           st0 == [it |-> start, steps |-> 0, sep |-> 0,
                   found_exact |-> <<>>, found2 |-> <<>>]
           fwd == IF start <= Len(fs) THEN ForwardWalk(q, fs, st0) ELSE st0
           bwd == IF fwd.found_exact = <<>> /\ start > 1
                  THEN BackwardWalk(q, fs,
                          [fwd EXCEPT !.it = start - 1, !.steps = 0])
                  ELSE fwd
       IN [pe |-> pe2, found_exact |-> bwd.found_exact, found2 |-> bwd.found2]

\* both vectors handed back together
ReturnedMixed(r) ==
    [pe |-> r.pe, found |-> r.found_exact \o r.found2]

\* "if not found_exact.empty(): return found_exact else: return found2"
Returned(r) ==
    [pe |-> r.pe,
     found |-> IF r.found_exact # <<>> THEN r.found_exact ELSE r.found2]

\* returns the scoper after the call and the vector of partner nodes
find_other_nodes(pe, q) == Returned(SearchScopes(pe, q))

add_item(pe, node_name, current_chrom, current_pos, chrom2, pos2, read_enum, length_from_cigar) ==
    LET slot == ScopeSlot(chrom2)
        pp == make_local_val(current_pos, chrom2, pos2, node_name, read_enum,
                             length_from_cigar)
        pp2 == make_local_val(pos2, current_chrom, current_pos, node_name,
                              read_enum, length_from_cigar)
        fs1 == IF read_enum = DELETION
               THEN MMInsert(pe.chrom_scope[slot], pp)
               ELSE pe.chrom_scope[slot]
    IN [pe EXCEPT !.loci = MMInsert(@, pp),
                  !.chrom_scope[slot] = MMInsert(fs1, pp2)]

\* ------------------------------------------------------------------------
\* ClipScoper: side[1] holds scope_left, read_minimizers_left,
\* clip_table_left and n_local_minimizers_left, side[2] the right ones.
\* A clip sequence is given by its set of minimizers; unordered sets are
\* walked in ascending order.
\* ------------------------------------------------------------------------
MinUniverse == {1, 2, 3}

EmptySide ==
    [scope |-> <<>>, rm |-> {}, keys |-> {}, at |-> [m \in MinUniverse |-> {}],
     n |-> 0]

\* erase the evicted read's entries from the clip table
RECURSIVE EraseMinimizers(_, _, _)
EraseMinimizers(sd, ms, item) ==
    IF ms = <<>> THEN sd
    ELSE LET m == Head(ms)
         IN IF m \in sd.keys
            THEN LET left == sd.at[m] \ {item}
                 IN EraseMinimizers(
                        [sd EXCEPT !.at[m] = left,
                                   !.n = IF left = {} THEN @ - 1 ELSE @],
                        Tail(ms), item)
            ELSE EraseMinimizers(sd, Tail(ms), item)

RECURSIVE _refresh_scope(_, _)
_refresh_scope(sd, position) ==
    IF sd.scope = <<>> THEN sd
    ELSE IF Abs(sd.scope[1][1] - position) > MinimizerDist
    THEN LET item == sd.scope[1]
             name == item[2]
             ms == SetToSeq({m \in MinUniverse : <<name, m>> \in sd.rm})
             sd1 == [sd EXCEPT !.scope = Tail(@)]
             sd2 == EraseMinimizers(sd1, ms, item)
         IN _refresh_scope(
                [sd2 EXCEPT !.rm = {x \in @ : x[1] # name}], position)
    ELSE sd

\* the scan of one posting list; c = [clustered, total_m_found,
\* target_counts, find_candidate]
RECURSIVE ScanTargets(_, _, _)
ScanTargets(c, targets, position) ==
    IF targets = <<>> THEN c
    ELSE LET item == Head(targets)
         IN IF Abs(item[1] - position) < MinimizerWindow
            THEN LET mitem == item[2]
                     total == c.total_m_found + 1
                     tc == c.target_counts[mitem] + 1
                     clustered == IF total + 2 * tc >= 2 * minimizer_support_thresh
                                  THEN c.clustered \cup {mitem}
                                  ELSE c.clustered
                     c1 == [c EXCEPT !.total_m_found = total,
                                     !.target_counts[mitem] = tc,
                                     !.clustered = clustered]
                 IN IF Cardinality(clustered) >= MaxClipPartners
                    THEN [c1 EXCEPT !.find_candidate = FALSE]
                    ELSE ScanTargets(c1, Tail(targets), position)
            ELSE ScanTargets(c, Tail(targets), position)

PairLess(x, y) == x[1] < y[1] \/ (x[1] = y[1] /\ x[2] < y[2])

RECURSIVE PairsToSeq(_)
PairsToSeq(S) ==
    IF S = {} THEN <<>>
    ELSE LET m == CHOOSE x \in S : \A y \in S : x = y \/ PairLess(x, y)
         IN <<m>> \o PairsToSeq(S \ {m})

\* the loop over the clip's minimizers; r = [sd, c]
RECURSIVE AddMinimizers(_, _, _, _)
AddMinimizers(r, ms, name, position) ==
    IF ms = <<>> THEN r
    ELSE LET m == Head(ms)
             sd1 == [r.sd EXCEPT !.rm = @ \cup {<<name, m>>}]
         IN IF m \notin sd1.keys
            THEN AddMinimizers(
                    [r EXCEPT !.sd = [sd1 EXCEPT !.keys = @ \cup {m},
                                                 !.at[m] = {<<position, name>>},
                                                 !.n = @ + 1]],
                    Tail(ms), name, position)
            ELSE LET c1 == IF r.c.find_candidate
                           THEN ScanTargets(r.c, PairsToSeq(sd1.at[m]), position)
                           ELSE r.c
                 IN AddMinimizers(
                       [sd |-> [sd1 EXCEPT !.at[m] = @ \cup {<<position, name>>}],
                        c |-> c1],
                       Tail(ms), name, position)

\* upper_bound_n_minimizers = read_length * 2 / (m + 1) with read_length 150
\* and m 7: n > (1 + 0.15 * reads) * 37.5
TooDense(n_local_minimizers, n_local_reads) ==
    8 * n_local_minimizers > 300 + 45 * n_local_reads

_add_m_find_candidates(sd, clustered, clip_minimizers, name, position, nodes) ==
    IF clip_minimizers = {} THEN [sd |-> sd, clustered |-> clustered]
    ELSE LET c0 == [clustered |-> clustered, total_m_found |-> 0,
                    target_counts |-> [x \in nodes |-> 0],
                    find_candidate |-> ~TooDense(sd.n, Len(sd.scope))]
             r == AddMinimizers([sd |-> sd, c |-> c0],
                                SetToSeq(clip_minimizers), name, position)
         IN [sd |-> r.sd, clustered |-> r.c.clustered]

\* _insert for one side: refresh, find candidates, push onto the scope
InsertSide(sd, clustered, clip_minimizers, input_read, position, nodes) ==
    LET sd1 == _refresh_scope(sd, position)
        r == _add_m_find_candidates(sd1, clustered, clip_minimizers,
                                    input_read, position, nodes)
    IN [sd |-> [r.sd EXCEPT !.scope = Append(@, <<position, input_read>>)],
        clustered |-> r.clustered]

\* ClipScoper.update: returns the scoper and clustered_nodes
update(cs, ev, input_read, chrom, position, nodes) ==
    LET cs1 == IF chrom # cs.current_chrom
               THEN [cs EXCEPT
                       !.side = [x \in {1, 2} |->
                                   [EmptySide EXCEPT !.rm = cs.side[x].rm]],
                       !.current_chrom = chrom]
               ELSE cs
        l == IF ev.clipL # {}
             THEN InsertSide(cs1.side[1], {}, ev.clipL, input_read, position, nodes)
             ELSE [sd |-> cs1.side[1], clustered |-> {}]
        r == IF ev.clipR # {}
             THEN InsertSide(cs1.side[2], l.clustered, ev.clipR, input_read,
                             position, nodes)
             ELSE [sd |-> cs1.side[2], clustered |-> l.clustered]
    IN [cs |-> [cs1 EXCEPT !.side = [x \in {1, 2} |->
                                        IF x = 1 THEN l.sd ELSE r.sd]],
        clustered |-> r.clustered]

\* ------------------------------------------------------------------------
\* SiteAdder
\* ------------------------------------------------------------------------
SiteEnum(site) ==
    IF site.svtype = "DEL" THEN DELETION
    ELSE IF site.svtype = "INS" THEN INSERTION
    ELSE BREAKEND

SiteLength(site) ==
    IF site.svtype = "DEL" \/ site.svtype = "INS" THEN site.svlen ELSE 0

\* SortedList.add with key start
SortedAdd(scope, site) ==
    LET n == Cardinality({x \in 1..Len(scope) : scope[x].start <= site.start})
    IN SubSeq(scope, 1, n) \o <<site>> \o SubSeq(scope, n + 1, Len(scope))

BisectLeft(scope, start) ==
    Cardinality({x \in 1..Len(scope) : scope[x].start < start})

add_to_scope(sa, site) ==
    IF site.chrom = sa.current_chrom
    THEN [sa EXCEPT !.scope = SortedAdd(@, site)]
    ELSE [sa EXCEPT !.scope = <<site>>, !.current_chrom = site.chrom]

\* returns the adder (its scope may lose entries) and the node or -1
find_nearest_site(sa, chrom, pos) ==
    IF Len(sa.scope) = 0 THEN [sa |-> sa, node |-> -1]
    ELSE LET drop == BisectLeft(sa.scope, pos - SiteScopeDist) - 1
             scope == IF drop > 0 THEN SubSeq(sa.scope, drop + 1, Len(sa.scope))
                      ELSE sa.scope
             left_index == BisectLeft(scope, pos)
             p == IF left_index = Len(scope) THEN scope[left_index]
                  ELSE IF left_index # Len(scope) - 1
                  THEN LET left_p == scope[left_index + 1]
                           right_p == scope[left_index + 2]
                       IN IF Abs(left_p.start - pos) <= Abs(right_p.start - pos)
                          THEN left_p ELSE right_p
                  ELSE scope[left_index + 1]
         IN [sa |-> [sa EXCEPT !.scope = scope],
             node |-> IF Abs(p.start - pos) <= SiteClusterDist
                      THEN sa.sites_index_r[p.id] ELSE -1]

\* the bundle of objects that process_alignment works on
\* b = [G, node_to_name, pe_scope, template_edges, clip_scope, site_adder,
\*      crashed]

\* "p0 behind": pop sites left of the read; s[0] on the emptied deque raises
RECURSIVE DrainBehind(_, _, _, _)
DrainBehind(b, chrom, pos, cluster_dist) ==
    LET s == b.site_adder.sites_queue[chrom]
    IN IF s[1].start < pos - cluster_dist /\ Len(s) > 0
       THEN LET b1 == [b EXCEPT !.site_adder.sites_queue[chrom] = Tail(@)]
            IN IF Len(s) = 1 THEN [b1 EXCEPT !.crashed = TRUE]
               ELSE DrainBehind(b1, chrom, pos, cluster_dist)
       ELSE b

\* "add local events to pos"
RECURSIVE AddLocalSites(_, _, _, _)
AddLocalSites(b, chrom, pos, cluster_dist) ==
    LET s == b.site_adder.sites_queue[chrom]
        site == s[1]
    IN IF Abs(site.start - pos) < cluster_dist /\ Len(s) > 0
       THEN LET node_name == b.G.n
                b1 == [b EXCEPT
                    !.G = addNode(@),
                    !.site_adder.sites_index_r[site.id] = node_name,
                    !.pe_scope = [add_item(@, node_name, site.chrom, site.start,
                                           site.chrom2, site.end, SiteEnum(site),
                                           SiteLength(site))
                                    EXCEPT !.local_chrom = chrom],
                    !.node_to_name = append(@, 0, 0, 0, 0, 0, 0, 0),
                    !.site_adder.count = @ + 1,
                    !.site_adder.sites_queue[chrom] = Tail(@)]
                b2 == [b1 EXCEPT !.site_adder = add_to_scope(@, site)]
            IN IF Len(s) > 1 THEN AddLocalSites(b2, chrom, pos, cluster_dist)
               ELSE b2
       ELSE b

add_any_sites(b, chrom, pos, cluster_dist) ==
    LET s == b.site_adder.sites_queue[chrom]
    IN IF Len(s) = 0 THEN b
       ELSE IF pos + cluster_dist < s[1].start THEN b
       ELSE LET b1 == DrainBehind(b, chrom, pos, cluster_dist)
            IN IF b1.crashed THEN b1
               ELSE AddLocalSites(b1, chrom, pos, cluster_dist)

\* ------------------------------------------------------------------------
\* TemplateEdges and add_template_edges
\* ------------------------------------------------------------------------
QNames == {GEvents[x].qname : x \in 1..Len(GEvents)}

SiteIds == 1..4

TripleLess(x, y) ==
    \/ x[1] < y[1]
    \/ (x[1] = y[1] /\ x[2] < y[2])
    \/ (x[1] = y[1] /\ x[2] = y[2] /\ x[3] < y[3])

RECURSIVE InsertTriple(_, _)
InsertTriple(x, ss) ==
    IF ss = <<>> THEN <<x>>
    ELSE IF TripleLess(x, Head(ss)) THEN <<x>> \o ss
    ELSE <<Head(ss)>> \o InsertTriple(x, Tail(ss))

RECURSIVE SortTriples(_)
SortTriples(ss) ==
    IF ss = <<>> THEN <<>>
    ELSE InsertTriple(ss[Len(ss)], SortTriples(SubSeq(ss, 1, Len(ss) - 1)))

IsPrimary(flag) == BitAnd(flag, 2304) = 0

\* the loop over consecutive alignments of one read; r = [g, primary]
RECURSIVE JoinNeighbours(_, _, _)
JoinNeighbours(r, aligns, ii) ==
    IF ii > Len(aligns) - 1 THEN r
    ELSE LET u == aligns[ii][2]
             v == aligns[ii + 1][2]
             primary == IF IsPrimary(aligns[ii][3]) THEN u ELSE r.primary
             g == IF ~hasEdge(r.g, u, v) THEN addEdge(r.g, u, v, 1) ELSE r.g
         IN JoinNeighbours([g |-> g, primary |-> primary], aligns, ii + 1)

\* the list walked in the order of registration, "sorted" left out
JoinReadUnsorted(g, aligns0) ==
    IF Len(aligns0) = 0 THEN [g |-> g, primary |-> -1]
    ELSE IF Len(aligns0) = 1
    THEN [g |-> g,
          primary |-> IF IsPrimary(aligns0[1][3]) THEN aligns0[1][2] ELSE -1]
    ELSE LET r == JoinNeighbours([g |-> g, primary |-> -1], aligns0, 1)
         IN IF r.primary = -1 /\ IsPrimary(aligns0[Len(aligns0)][3])
            THEN [r EXCEPT !.primary = aligns0[Len(aligns0)][2]]
            ELSE r

\* one of read1_aligns / read2_aligns; primary -1 stands for None
JoinRead(g, aligns0) ==
    IF Len(aligns0) = 0 THEN [g |-> g, primary |-> -1]
    ELSE IF Len(aligns0) = 1
    THEN [g |-> g,
          primary |-> IF IsPrimary(aligns0[1][3]) THEN aligns0[1][2] ELSE -1]
    ELSE LET aligns == IF Len(aligns0) > 2 THEN SortTriples(aligns0) ELSE aligns0
             r == JoinNeighbours([g |-> g, primary |-> -1], aligns, 1)
         IN IF r.primary = -1 /\ IsPrimary(aligns[Len(aligns)][3])
            THEN [r EXCEPT !.primary = aligns[Len(aligns)][2]]
            ELSE r

JoinTemplate(g, arr) ==
    LET read1_aligns == SelectSeq(arr, LAMBDA t : BitAnd(t[3], 64) # 0)
        read2_aligns == SelectSeq(arr, LAMBDA t : BitAnd(t[3], 64) = 0)
        r1 == JoinRead(g, read1_aligns)
        r2 == JoinRead(r1.g, read2_aligns)
    IN IF r1.primary # -1 /\ r2.primary # -1
          /\ ~hasEdge(r2.g, r1.primary, r2.primary)
       THEN addEdge(r2.g, r1.primary, r2.primary, 1)
       ELSE r2.g

RECURSIVE JoinTemplates(_, _, _)
JoinTemplates(g, te, names) ==
    IF names = <<>> THEN g
    ELSE JoinTemplates(JoinTemplate(g, te[Head(names)]), te, Tail(names))

add_template_edges(g, te) == JoinTemplates(g, te, SetToSeq(QNames))

\* ------------------------------------------------------------------------
\* add_to_graph
\* ------------------------------------------------------------------------
\* the loop "if not G.hasEdge(node_name, other_node): G.addEdge(...)" with
\* the test left out
RECURSIVE AddLinksUnchecked(_, _, _, _)
AddLinksUnchecked(g, node_name, others, w) ==
    IF others = <<>> THEN g
    ELSE AddLinksUnchecked(addEdge(g, node_name, Head(others), w),
                           node_name, Tail(others), w)

\* for other_node in ...: if not G.hasEdge(node_name, other_node): addEdge
RECURSIVE AddLinks(_, _, _, _)
AddLinks(g, node_name, others, w) ==
    IF others = <<>> THEN g
    ELSE AddLinks(IF ~hasEdge(g, node_name, Head(others))
                  THEN addEdge(g, node_name, Head(others), w) ELSE g,
                  node_name, Tail(others), w)

cluster_clipped(b, ev, chrom, pos, node_name) ==
    LET r == update(b.clip_scope, ev, node_name, chrom, pos, 0..(b.G.n - 1))
    IN [b EXCEPT !.clip_scope = r.cs,
                 !.G = AddLinks(@, node_name, SetToSeq(r.clustered), 2)]

SiteLinks(b, ev, node_name) ==
    LET f1 == find_nearest_site(b.site_adder, ev.chrom, ev.event_pos)
        g1 == IF f1.node >= 0 /\ ~hasEdge(b.G, node_name, f1.node)
              THEN addEdge(b.G, node_name, f1.node, 0) ELSE b.G
        f2 == find_nearest_site(f1.sa, ev.chrom2, ev.pos2)
        g2 == IF f1.node # f2.node /\ f2.node >= 0
                 /\ ~hasEdge(g1, node_name, f2.node)
              THEN addEdge(g1, node_name, f2.node, 0) ELSE g1
    IN [b EXCEPT !.site_adder = f2.sa, !.G = g2]

\* the guard of template_edges.add with the test left out
RegistersAny(read_enum) == read_enum >= 0

\* "if read_enum < 2": template_edges.add is called
Registers(read_enum) == read_enum < 2

add_to_graph(b, ev, file_tell, spd, sites, mm) ==
    LET node_name == b.G.n
        b1 == [b EXCEPT
                 !.G = addNode(@),
                 !.node_to_name = append(@, ev.qname, ev.flag, ev.pos, ev.chrom,
                                         file_tell, ev.cigar_index,
                                         ev.event_pos),
                 !.template_edges[ev.qname] =
                     IF Registers(ev.read_enum)
                     THEN Append(@, <<ev.qstart, node_name, ev.flag>>) ELSE @]
        q == [node_name |-> node_name, current_chrom |-> ev.chrom,
              current_pos |-> ev.event_pos, chrom2 |-> ev.chrom2,
              pos2 |-> ev.pos2, read_enum |-> ev.read_enum,
              length_from_cigar |-> ev.len, spd |-> spd]
        b2 == IF ev.read_enum # BREAKEND /\ ~mm
              THEN LET f == find_other_nodes(b1.pe_scope, q)
                   IN [b1 EXCEPT !.pe_scope = f.pe,
                                 !.G = AddLinks(@, node_name, f.found, 2)]
              ELSE IF ev.chrom # ev.chrom2 /\ clip_l # -1
              THEN cluster_clipped(b1, ev, ev.chrom, ev.event_pos, node_name)
              ELSE b1
        b3 == IF ~mm /\ ev.read_enum # BREAKEND
              THEN [b2 EXCEPT !.pe_scope =
                       add_item(@, node_name, ev.chrom, ev.event_pos, ev.chrom2,
                                ev.pos2, ev.read_enum, ev.len)]
              ELSE b2
    IN IF sites /\ (ev.read_enum = BREAKEND \/ ev.read_enum = SPLIT)
       THEN SiteLinks(b3, ev, node_name)
       ELSE b3

\* ========================================================================
\* graph.pyx: from alignment records to add_to_graph
\* ========================================================================

\* An alignment record.  cigar is cigartuples, a sequence of <<op, length>>
\* with the BAM operation codes (0 M, 1 I, 2 D, 3 N, 4 S, 5 H, 6 P, 7 =,
\* 8 X); sa lists the blocks of the SA tag; clip holds what the helpers of
\* map_set_utils and the quality windows report for the record.
Rec(qname, flag, rname, pos, cigar, mapq, rnext, pnext, tlen, sa, clip) ==
    [qname |-> qname, flag |-> flag, rname |-> rname, pos |-> pos,
     cigar |-> cigar, mapq |-> mapq, rnext |-> rnext, pnext |-> pnext,
     tlen |-> tlen, sa |-> sa, clip |-> clip]

\* near is position_distance(aln_start, aln_end, ref_start, ref_end) < thresh
SaBlock(chrom, pos, fwd, cigar, mq, near) ==
    [chrom |-> chrom, pos |-> pos, fwd |-> fwd, cigar |-> cigar, mq |-> mq,
     near |-> near]

\* gl / gr: the windows of the left / right soft clip, counted from the
\* first one good_quality_clip looks at, that it finds good before a window
\* of low quality; cigar_clip and (hl, hr): the results of cigar_clip(r,
\* clip_l) and clip_sizes_hard(r); mL / mR: the minimizers of the clips that
\* ClipScoper indexes
Clip(gl, gr, cigar_clip, hl, hr, mL, mR) ==
    [gl |-> gl, gr |-> gr, cigar_clip |-> cigar_clip, hl |-> hl, hr |-> hr,
     mL |-> mL, mR |-> mR]

NoClip == Clip(0, 0, FALSE, 0, 0, {}, {})

Records ==
    << Rec(1, 65, 0, 1000, << <<0, 100>> >>, 60, 1, 1400, 0, <<>>, NoClip),
       Rec(2, 65, 0, 1030, << <<0, 20>>, <<2, 100>>, <<0, 80>> >>, 60, 0, 1400,
           0, <<>>, NoClip),
       Rec(3, 65, 0, 1040, << <<4, 30>>, <<0, 20>>, <<2, 50>>, <<0, 50>> >>, 60,
           0, 1300, 0,
           << SaBlock(1, 1003, TRUE, << <<0, 30>>, <<4, 70>> >>, 60, FALSE) >>,
           Clip(21, 0, TRUE, 30, 0, {1, 2}, {})),
       Rec(4, 67, 0, 1060, << <<0, 70>>, <<4, 30>> >>, 60, 0, 1200, 240,
           << SaBlock(1, 1100, TRUE, << <<4, 70>>, <<0, 30>> >>, 60, FALSE) >>,
           Clip(0, 20, TRUE, 0, 30, {}, {3})),
       Rec(5, 65, 0, 1100, << <<0, 10>>, <<6, 100>>, <<2, 40>>, <<0, 10>> >>, 60,
           0, 1500, 0, <<>>, NoClip),
       Rec(6, 73, 0, 1120, << <<4, 30>>, <<0, 70>> >>, 60, 0, 1120, 0, <<>>,
           Clip(21, 0, TRUE, 30, 0, {1, 2}, {})),
       Rec(7, 65, 0, 1150, << <<0, 100>> >>, 0, 1, 1000, 0, <<>>, NoClip),
       Rec(8, 0, 1, 1000, << <<0, 60>>, <<4, 40>> >>, 60, 1, 1000, 0,
           << SaBlock(0, 1500, TRUE, << <<4, 60>>, <<0, 40>> >>, 60, FALSE) >>,
           Clip(0, 30, TRUE, 0, 40, {}, {2, 3})),
       Rec(3, 2113, 1, 1003, << <<0, 30>>, <<5, 70>> >>, 60, 0, 1300, 0,
           << SaBlock(0, 1040, TRUE,
                      << <<4, 30>>, <<0, 20>>, <<2, 50>>, <<0, 50>> >>, 60,
                      FALSE) >>,
           Clip(0, 0, FALSE, 0, 70, {}, {})),
       Rec(1, 129, 1, 1400, << <<0, 100>> >>, 60, 0, 1000, 0, <<>>, NoClip) >>

RECURSIVE SumLens(_, _)
SumLens(cigar, ops) ==
    IF cigar = <<>> THEN 0
    ELSE (IF Head(cigar)[1] \in ops THEN Head(cigar)[2] ELSE 0)
         + SumLens(Tail(cigar), ops)

\* AlignedSegment.reference_end: pos plus the operations that consume the
\* reference (M, D, N, =, X)
reference_end(r) == r.pos + SumLens(r.cigar, {0, 2, 3, 7, 8})

\* AlignedSegment.infer_read_length: M, I, S, =, X and the hard clips
infer_read_length(r) == SumLens(r.cigar, {0, 1, 4, 5, 7, 8})

\* AlignedSegment.query_alignment_start: the leading soft clip
query_alignment_start(r) ==
    LET ct == IF r.cigar[1][1] = 5 THEN Tail(r.cigar) ELSE r.cigar
    IN IF ct # <<>> /\ ct[1][1] = 4 THEN ct[1][2] ELSE 0

\* cigartuples[i] with Python's negative indices
CigarAt(r, i) == IF i < 0 THEN r.cigar[Len(r.cigar) + 1 + i] ELSE r.cigar[i + 1]

good_quality_clip(r, clip_length) ==
    LET window_length == Min2(clip_length, WindowLength)
        ct == r.cigar
        first_op == ct[1]
        last_op == ct[Len(ct)]
    IN \/ /\ BitAnd(r.flag, 2304) # 0
          /\ (first_op[1] = 5 \/ last_op[1] = 5)
       \/ /\ first_op[1] = 4
          /\ first_op[2] >= window_length /\ first_op[2] >= clip_length
          /\ (window_length - 1)
               + Min2(r.clip.gl, first_op[2] - window_length + 1) >= clip_length
       \/ /\ last_op[1] = 4
          /\ last_op[2] >= window_length /\ last_op[2] >= clip_length
          /\ (window_length - 1)
               + Min2(r.clip.gr, last_op[2] - window_length) >= clip_length

\* one query_aligns entry; kind is its last element: "input", or whether
\* the strand is that of the record
QA(qs, qe, rs, re, chrom, mq, kind) ==
    [qs |-> qs, qe |-> qe, rs |-> rs, re |-> re, chrom |-> chrom, mq |-> mq,
     kind |-> kind]

get_query_pos_from_cigartuples(r) ==
    LET first_op == r.cigar[1]
        last_op == r.cigar[Len(r.cigar)]
        start == IF first_op[1] = 4 \/ first_op[1] = 5 THEN first_op[2] ELSE 0
        end == infer_read_length(r)
                 - (IF last_op[1] = 4 \/ last_op[1] = 5 THEN last_op[2] ELSE 0)
    IN QA(start, end, r.pos, reference_end(r), r.rname, r.mapq, "input")

\* the loop of get_query_pos_from_cigarstring; q = [start, end, ref_end, i]
RECURSIVE CigarStringLoop(_, _)
CigarStringLoop(q, cigar) ==
    IF cigar = <<>> THEN q
    ELSE LET opp == Head(cigar)[1]
             slen == Head(cigar)[2]
             q1 == IF ~q.i /\ opp \in {4, 5}
                   THEN [q EXCEPT !.start = @ + slen, !.end = @ + slen]
                   ELSE IF opp = 0
                   THEN [q EXCEPT !.end = @ + slen, !.ref_end = @ + slen]
                   ELSE IF opp = 2 THEN [q EXCEPT !.ref_end = @ + slen]
                   ELSE IF opp = 1 THEN [q EXCEPT !.end = @ + slen]
                   ELSE q
         IN CigarStringLoop([q1 EXCEPT !.i = TRUE], Tail(cigar))

get_query_pos_from_cigarstring(cigar, pos) ==
    CigarStringLoop([start |-> 0, end |-> 0, ref_end |-> pos, i |-> FALSE],
                    cigar)

\* the loop over the SA blocks
RECURSIVE SaLoop(_, _, _)
SaLoop(query_aligns, blocks, r) ==
    IF blocks = <<>> THEN query_aligns
    ELSE LET sa == Head(blocks)
             q == get_query_pos_from_cigarstring(sa.cigar, sa.pos)
             same == (sa.fwd = (BitAnd(r.flag, 16) = 0))
             start_temp == infer_read_length(r) - q.end
             query_start == IF same THEN q.start ELSE start_temp
             query_end == IF same THEN q.end
                          ELSE start_temp + q.end - q.start
             t == QA(query_start, query_end, sa.pos, q.ref_end, sa.chrom,
                     sa.mq, IF same THEN "same" ELSE "other")
         IN IF r.rname = sa.chrom /\ sa.near
            THEN <<query_aligns[1], t>>
            ELSE SaLoop(Append(query_aligns, t), Tail(blocks), r)

QAKey(x) == <<x.qs, x.qe, x.rs, x.re, x.chrom, x.mq>>

RECURSIVE SeqLess(_, _)
SeqLess(x, y) ==
    IF x = <<>> THEN FALSE
    ELSE Head(x) < Head(y) \/ (Head(x) = Head(y) /\ SeqLess(Tail(x), Tail(y)))

RECURSIVE InsertQA(_, _)
InsertQA(x, ss) ==
    IF ss = <<>> THEN <<x>>
    ELSE IF SeqLess(QAKey(x), QAKey(Head(ss))) THEN <<x>> \o ss
    ELSE <<Head(ss)>> \o InsertQA(x, Tail(ss))

RECURSIVE SortQA(_)
SortQA(ss) ==
    IF ss = <<>> THEN <<>>
    ELSE InsertQA(ss[Len(ss)], SortQA(SubSeq(ss, 1, Len(ss) - 1)))

\* the sorted query_aligns and the index of the record's own entry; ok is
\* FALSE when sorted() must compare "input" with a bool (TypeError)
SaResult(input0, query_aligns) ==
    [ok |-> \A x \in 1..Len(query_aligns) :
                  query_aligns[x].kind = "input"
                  \/ QAKey(query_aligns[x]) # QAKey(input0),
     all_aligns |-> query_aligns,
     index |-> (CHOOSE x \in 1..Len(query_aligns) :
                   query_aligns[x].kind = "input") - 1]

SaSorted(input0, r) == SaResult(input0, SortQA(SaLoop(<<input0>>, r.sa, r)))

alignments_from_sa_tag(r) == SaSorted(get_query_pos_from_cigartuples(r), r)

Connected(event_pos, chrom, pos2, chrom2, inferred) ==
    [event_pos |-> event_pos, chrom |-> chrom, pos2 |-> pos2,
     chrom2 |-> chrom2, inferred |-> inferred]

connect_right(a, b, r, paired) ==
    LET event_pos == a.re
    IN IF b.mq < mapq_thresh
       THEN Connected(event_pos, a.chrom, event_pos, a.chrom, BREAKEND)
       ELSE IF /\ paired
               /\ BitAnd(r.flag, 2304) = 0
               /\ BitAnd(r.flag, 2) # 0
               /\ r.pnext >= event_pos
               /\ (a.chrom # b.chrom \/ Abs(b.rs - event_pos) > MaxDist)
       THEN Connected(event_pos, a.chrom, event_pos, a.chrom, BREAKEND)
       ELSE IF b.kind = "same"
       THEN Connected(event_pos, a.chrom, b.rs, b.chrom, 0)
       ELSE Connected(event_pos, a.chrom, b.re, b.chrom, 0)

connect_left(a, b, r, paired) ==
    LET event_pos == a.rs
    IN IF b.mq < mapq_thresh
       THEN Connected(event_pos, a.chrom, event_pos, a.chrom, BREAKEND)
       ELSE IF /\ paired
               /\ BitAnd(r.flag, 2304) = 0
               /\ BitAnd(r.flag, 2) # 0
               /\ r.pnext <= event_pos
               /\ (a.chrom # b.chrom \/ Abs(b.re - event_pos) > MaxDist)
       THEN Connected(event_pos, a.chrom, event_pos, a.chrom, BREAKEND)
       ELSE Connected(event_pos, a.chrom, b.re, b.chrom, 0)

\* ------------------------------------------------------------------------
\* process_alignment.  st = [b, enums]: the bundle of objects and, for each
\* node add_to_graph created so far, the read_enum process_alignment was
\* called with and the one it handed to add_to_graph.
\* c = [cigar_index, event_pos, cigar_pos2, read_enum, len] is the call;
\* its outcome is [crash, evs]: an exception, or the add_to_graph calls it
\* makes, each [d, len] with d = [event_pos, chrom, pos2, chrom2,
\* cigar_index, read_enum].
\* ------------------------------------------------------------------------
Call(cigar_index, event_pos, cigar_pos2, read_enum, len) ==
    [cigar_index |-> cigar_index, event_pos |-> event_pos,
     cigar_pos2 |-> cigar_pos2, read_enum |-> read_enum, len |-> len]

NoCall == [crash |-> FALSE, evs |-> <<>>]

Raised == [crash |-> TRUE, evs |-> <<>>]

OneCall(d, len) == [crash |-> FALSE, evs |-> << [d |-> d, len |-> len] >>]

\* "event_pos, chrom, pos2, chrom2, inferred_clip_type = connect_...(...)",
\* the cigar_index that follows it and, in the paired branch, the change of
\* read_enum
ApplyConnect(d, cn, cigar_index, reclassify) ==
    [d EXCEPT !.event_pos = cn.event_pos, !.chrom = cn.chrom,
              !.pos2 = cn.pos2, !.chrom2 = cn.chrom2,
              !.cigar_index = cigar_index,
              !.read_enum = IF reclassify /\ cn.inferred = BREAKEND
                            THEN BREAKEND ELSE @]

Resolved(r, c) ==
    [event_pos |-> c.event_pos, chrom |-> r.rname, pos2 |-> r.pnext,
     chrom2 |-> r.rnext, cigar_index |-> c.cigar_index,
     read_enum |-> c.read_enum]

\* "if index < len(all_aligns) - 1: connect to next"
RightOf(d, r, sa, cigar_index, reclassify) ==
    IF sa.index < Len(sa.all_aligns) - 1
    THEN ApplyConnect(d, connect_right(sa.all_aligns[sa.index + 1],
                             sa.all_aligns[sa.index + 2], r, paired_end),
                      cigar_index, reclassify)
    ELSE d

\* "if index > 0"
LeftOf(d, r, sa, cigar_index, reclassify) ==
    IF sa.index > 0
    THEN ApplyConnect(d, connect_left(sa.all_aligns[sa.index + 1],
                             sa.all_aligns[sa.index], r, paired_end),
                      cigar_index, reclassify)
    ELSE d

\* "if good_clip and cigar_clip(r, clip_l)" of a BREAKEND
BreakendOf(d, r, good_clip) ==
    IF d.read_enum = BREAKEND /\ good_clip /\ r.clip.cigar_clip
    THEN [d EXCEPT !.chrom2 = InsChrom, !.pos2 = d.event_pos]
    ELSE d

\* "chrom2 = chrom; pos2 = cigar_pos2 unless the operation is an insertion"
WithinRead(d, r, c) ==
    [d EXCEPT !.chrom2 = d.chrom,
              !.pos2 = IF CigarAt(r, d.cigar_index)[1] # 1
                       THEN c.cigar_pos2 ELSE d.event_pos]

WithinOf(d, r, c) ==
    IF d.read_enum = DELETION \/ d.read_enum = INSERTION
    THEN WithinRead(d, r, c) ELSE d

\* the paired branch from "if read_enum == BREAKEND" on
PairedFinish(d, r, c, good_clip) ==
    IF /\ d.read_enum = BREAKEND
       /\ mm_only
       /\ InRoi(r.rname, c.event_pos)
       /\ InRoi(r.rnext, r.pnext)
    THEN NoCall
    ELSE OneCall(WithinOf(BreakendOf(d, r, good_clip), r, c), c.len)

PairedSplit(r, c, sa, good_clip) ==
    IF ~sa.ok THEN Raised
    ELSE IF Len(sa.all_aligns) = 1 THEN NoCall
    ELSE PairedFinish(LeftOf(RightOf(Resolved(r, c), r, sa,
                                     Len(r.cigar) - 1, TRUE),
                             r, sa, 0, TRUE),
                      r, c, good_clip)

PairedWith(r, c, good_clip) ==
    IF c.read_enum = SPLIT /\ r.sa # <<>> /\ good_clip
    THEN PairedSplit(r, c, alignments_from_sa_tag(r), good_clip)
    ELSE PairedFinish(Resolved(r, c), r, c, good_clip)

\* if paired_end or flag & 1
PairedBranch(r, c) == PairedWith(r, c, good_quality_clip(r, SplitClipLength))

SingleSplit(r, c, sa) ==
    IF ~sa.ok THEN Raised
    ELSE IF Len(sa.all_aligns) = 1 THEN NoCall
    ELSE [crash |-> FALSE,
          evs |-> (IF sa.index < Len(sa.all_aligns) - 1
                   THEN << [d |-> RightOf(Resolved(r, c), r, sa, 0, FALSE),
                            len |-> 0] >>
                   ELSE <<>>)
                  \o
                  (IF sa.index > 0
                   THEN << [d |-> LeftOf(Resolved(r, c), r, sa,
                                         Len(r.cigar) - 1, FALSE),
                            len |-> c.len] >>
                   ELSE <<>>)]

\* else: single end
SingleBranch(r, c) ==
    IF c.read_enum = SPLIT
    THEN IF r.sa = <<>> THEN NoCall
         ELSE SingleSplit(r, c, alignments_from_sa_tag(r))
    ELSE IF c.read_enum >= 2
    THEN OneCall(WithinRead([event_pos |-> c.event_pos, chrom |-> r.rname,
                             pos2 |-> r.pnext, chrom2 |-> r.rname,
                             cigar_index |-> c.cigar_index,
                             read_enum |-> c.read_enum], r, c), c.len)
    ELSE NoCall

\* the calls of add_to_graph
RECURSIVE Emit(_, _, _, _, _, _)
Emit(st, r, evs, called, file_tell, spd) ==
    IF evs = <<>> THEN st
    ELSE Emit([b |-> add_to_graph(st.b,
                        Ev(r.qname, r.flag, Head(evs).d.chrom, r.pos,
                           Head(evs).d.event_pos, Head(evs).d.chrom2,
                           Head(evs).d.pos2, Head(evs).d.read_enum,
                           Head(evs).d.cigar_index, Head(evs).len,
                           query_alignment_start(r), r.clip.mL, r.clip.mR,
                           FALSE),
                        file_tell, spd, has_sites, mm_only),
               enums |-> Append(st.enums,
                                [node |-> st.b.G.n, called |-> called,
                                 final |-> Head(evs).d.read_enum])],
              r, Tail(evs), called, file_tell, spd)

\* what follows add_any_sites
AfterSites(st, r, c, out, file_tell, spd) ==
    IF st.b.crashed THEN st
    ELSE IF out.crash THEN [st EXCEPT !.b.crashed = TRUE]
    ELSE Emit(st, r, out.evs, c.read_enum, file_tell, spd)

process_alignment(st, r, c, file_tell, spd) ==
    IF paired_end /\ c.read_enum = SPLIT /\ BitAnd(r.flag, 8) # 0 THEN st
    ELSE AfterSites(
            IF has_sites
            THEN [st EXCEPT !.b = add_any_sites(@, r.rname, c.event_pos,
                                                ClstDist)]
            ELSE st,
            r, c,
            IF paired_end \/ BitAnd(r.flag, 1) # 0
            THEN PairedBranch(r, c) ELSE SingleBranch(r, c),
            file_tell, spd)

\* ------------------------------------------------------------------------
\* construct_graph: the calls of process_alignment made for one record
\* ------------------------------------------------------------------------
\* an insertion or deletion of at least min_sv_size bases
CigarEvent(w, cigar_index, length, read_enum) ==
    IF length >= min_sv_size
    THEN [w EXCEPT !.events = Append(@,
                      Call(cigar_index, w.event_pos, w.event_pos + length,
                           read_enum, length)),
                   !.added = TRUE]
    ELSE w

\* one turn of "for cigar_index, (opp, length) in enumerate(r.cigartuples)"
CigarStep(w, opp, length, cigar_index) ==
    IF opp = 1 THEN CigarEvent(w, cigar_index, length, INSERTION)
    ELSE IF opp = 2
    THEN [CigarEvent(w, cigar_index, length, DELETION)
            EXCEPT !.event_pos = @ + length]
    ELSE IF opp # 4 /\ opp # 5 THEN [w EXCEPT !.event_pos = @ + length]
    ELSE IF opp = 4 /\ length >= clip_l THEN [w EXCEPT !.clipped = TRUE]
    ELSE w

\* w = [event_pos, events, added, clipped]
RECURSIVE CigarWalk(_, _, _)
CigarWalk(w, cigar, cigar_index) ==
    IF cigar = <<>> THEN w
    ELSE CigarWalk(CigarStep(w, Head(cigar)[1], Head(cigar)[2], cigar_index),
                   Tail(cigar), cigar_index + 1)

\* "if r.flag & 2 and abs(r.tlen) < max_dist and r.rname == r.rnext"
NormalPair(r) ==
    /\ BitAnd(r.flag, 2) # 0
    /\ Abs(r.tlen) < MaxDist
    /\ r.rname = r.rnext

\* "if not added and contigs": the whole alignment is used
WholeRead(r, w) ==
    IF BitAnd(r.flag, 8) # 0 /\ w.clipped
    THEN IF ~(r.clip.hl # 0 /\ r.clip.hr # 0)
            /\ good_quality_clip(r, MateClipLength)
         THEN << Call(-1, w.event_pos, -1, BREAKEND, 0) >>
         ELSE <<>>
    ELSE IF NormalPair(r) /\ ~w.clipped THEN <<>>
    ELSE << Call(-1,
                 IF (r.clip.hl # 0 \/ r.clip.hr # 0) /\ r.clip.hl > r.clip.hr
                 THEN r.pos ELSE w.event_pos,
                 -1,
                 IF NormalPair(r) THEN BREAKEND ELSE DISCORDANT, 0) >>

\* the calls after the one for the SA tag
CallsAfter(r, w) ==
    (IF ~w.added /\ contigs THEN WholeRead(r, w) ELSE <<>>) \o w.events

WalkStart(r, added) ==
    [event_pos |-> r.pos, events |-> <<>>, added |-> added, clipped |-> FALSE]

ReadCalls(r) ==
    IF r.mapq < mapq_thresh THEN <<>>
    ELSE IF Len(r.cigar) > 1
    THEN IF r.sa # <<>>
         THEN << Call(-1, r.pos, -1, SPLIT, 0) >>
              \o CallsAfter(r, CigarWalk(WalkStart(r, TRUE), r.cigar, 0))
         ELSE CallsAfter(r, CigarWalk(WalkStart(r, FALSE), r.cigar, 0))
    ELSE CallsAfter(r, WalkStart(r, FALSE))

RECURSIVE ProcessCalls(_, _, _, _, _)
ProcessCalls(st, r, calls, file_tell, spd) ==
    IF calls = <<>> \/ st.b.crashed THEN st
    ELSE ProcessCalls(process_alignment(st, r, Head(calls), file_tell, spd),
                      r, Tail(calls), file_tell, spd)

\* ========================================================================
\* graph.pyx: proc_component, get_partitions, count_support_between
\* ========================================================================

\* Py_SimpleGraph.neighbors(u): the adjacency list of u, in insertion order
RECURSIVE neighbors(_, _)
neighbors(edges, u) ==
    IF edges = <<>> THEN <<>>
    ELSE LET ed == Head(edges)
             rest == neighbors(Tail(edges), u)
         IN IF ed[1] = u THEN <<ed[2]>> \o rest
            ELSE IF ed[2] = u THEN <<ed[1]>> \o rest
            ELSE rest

\* Py_SimpleGraph.weight(u, v)
weight(edges, u, v) ==
    LET x == CHOOSE y \in 1..Len(edges) :
                 {edges[y][1], edges[y][2]} = {u, v}
    IN edges[x][3]

\* "G.weight(u, v) > 1" without the test
IsAnyEdge(w) == w >= 0

\* G.weight(u, v) > 1: weight 2 or 3, a local edge
IsLocalEdge(w) == w > 1

\* "queue.append(v)" left out
EnqueueNothing(queue, v) == queue

\* queue.append(v)
Enqueue(queue, v) == Append(queue, v)

\* the loop over G.neighbors(u) in BFS_local; st = [queue, nodes_found]
RECURSIVE BfsNeighbours(_, _, _, _, _)
BfsNeighbours(edges, u, nbrs, visited, st) ==
    IF nbrs = <<>> THEN st
    ELSE LET v == Head(nbrs)
             st1 == IF v \notin visited /\ IsLocalEdge(weight(edges, u, v))
                    THEN LET nf == st.nodes_found \cup {u}
                         IN IF v \notin nf
                            THEN [queue |-> Enqueue(st.queue, v),
                                  nodes_found |-> nf \cup {v}]
                            ELSE [st EXCEPT !.nodes_found = nf]
                    ELSE st
         IN BfsNeighbours(edges, u, Tail(nbrs), visited, st1)

\* the while loop of BFS_local; r = [queue, nodes_found, visited]
RECURSIVE BfsLoop(_, _)
BfsLoop(edges, r) ==
    IF r.queue = <<>> THEN r
    ELSE LET u == Head(r.queue)
             st == BfsNeighbours(edges, u, neighbors(edges, u), r.visited,
                                 [queue |-> Tail(r.queue),
                                  nodes_found |-> r.nodes_found])
         IN BfsLoop(edges, [queue |-> st.queue, nodes_found |-> st.nodes_found,
                            visited |-> r.visited \cup {u}])

BFS_local(edges, source, visited) ==
    BfsLoop(edges, [queue |-> <<source>>, nodes_found |-> {},
                    visited |-> visited])

\* the loop over G.neighbors(u) in get_partitions; r = [seen, parts]
RECURSIVE PartNeighbours(_, _, _, _)
PartNeighbours(edges, u, nbrs, r) ==
    IF nbrs = <<>> THEN r
    ELSE LET v == Head(nbrs)
         IN IF v \in r.seen THEN PartNeighbours(edges, u, Tail(nbrs), r)
            ELSE IF IsLocalEdge(weight(edges, u, v))
            THEN LET b == BFS_local(edges, u, r.seen)
                 IN PartNeighbours(edges, u, Tail(nbrs),
                       [seen |-> b.visited,
                        parts |-> IF b.nodes_found # {}
                                  THEN Append(r.parts, b.nodes_found)
                                  ELSE r.parts])
            ELSE PartNeighbours(edges, u, Tail(nbrs), r)

\* one iteration of "for u in nodes" of get_partitions
PartitionNode(edges, u, r) ==
    IF u \in r.seen THEN r
    ELSE LET r1 == PartNeighbours(edges, u, neighbors(edges, u), r)
         IN [r1 EXCEPT !.seen = @ \cup {u}]

\* p2i: the partition index (from 0) of a node, -1 when it is in none
p2i(pts, node) ==
    IF \E x \in 1..Len(pts) : node \in pts[x]
    THEN (CHOOSE x \in 1..Len(pts) :
             node \in pts[x]
             /\ \A y \in (x + 1)..Len(pts) : node \notin pts[y]) - 1
    ELSE -1

\* the two counts[t][.].add calls with the sides exchanged
AddPairSwapped(c, i, pj, node, child) ==
    IF pj < i
    THEN [c EXCEPT ![<<pj, i>>] = <<@[1] \cup {node}, @[2] \cup {child}>>]
    ELSE [c EXCEPT ![<<i, pj>>] = <<@[1] \cup {child}, @[2] \cup {node}>>]

\* counts[t][0].add / counts[t][1].add
AddPair(c, i, pj, node, child) ==
    IF pj < i
    THEN [c EXCEPT ![<<pj, i>>] = <<@[1] \cup {child}, @[2] \cup {node}>>]
    ELSE [c EXCEPT ![<<i, pj>>] = <<@[1] \cup {node}, @[2] \cup {child}>>]

\* the loop over G.neighbors(node) in count_support_between;
\* st = [counts, current_t, any_out_edges]
RECURSIVE CountChildren(_, _, _, _, _, _)
CountChildren(pts, i, node, nbrs, seen_t, st) ==
    IF nbrs = <<>> THEN st
    ELSE LET child == Head(nbrs)
             pj == p2i(pts, child)
             t == IF pj < i THEN <<pj, i>> ELSE <<i, pj>>
         IN IF pj = -1 \/ pj = i
            THEN CountChildren(pts, i, node, Tail(nbrs), seen_t, st)
            ELSE IF t \in seen_t
            THEN CountChildren(pts, i, node, Tail(nbrs), seen_t,
                               [st EXCEPT !.any_out_edges = 1])
            ELSE LET c0 == IF t \in DOMAIN st.counts THEN st.counts
                           ELSE st.counts @@ (t :> <<{}, {}>>)
                 IN CountChildren(pts, i, node, Tail(nbrs), seen_t,
                       [counts |-> AddPair(c0, i, pj, node, child),
                        current_t |-> st.current_t \cup {t},
                        any_out_edges |-> 1])

\* the loop over the nodes of partition i; r = [counts, self_counts, current_t]
RECURSIVE CountNodes(_, _, _, _, _, _)
CountNodes(edges, pts, i, nodes, seen_t, r) ==
    IF nodes = <<>> THEN r
    ELSE LET node == Head(nodes)
             st == CountChildren(pts, i, node, neighbors(edges, node), seen_t,
                                 [counts |-> r.counts, current_t |-> r.current_t,
                                  any_out_edges |-> 0])
             sc == IF st.any_out_edges = 0
                   THEN IF i \in DOMAIN r.self_counts
                        THEN [r.self_counts EXCEPT ![i] = Append(@, node)]
                        ELSE r.self_counts @@ (i :> <<node>>)
                   ELSE r.self_counts
         IN CountNodes(edges, pts, i, Tail(nodes), seen_t,
                       [counts |-> st.counts, self_counts |-> sc,
                        current_t |-> st.current_t])

\* the loop over the partitions; r = [counts, self_counts, seen_t]
RECURSIVE CountParts(_, _, _, _)
CountParts(edges, pts, i, r) ==
    IF i >= Len(pts) THEN r
    ELSE LET r1 == CountNodes(edges, pts, i, SetToSeq(pts[i + 1]), r.seen_t,
                              [counts |-> r.counts, self_counts |-> r.self_counts,
                               current_t |-> {}])
         IN CountParts(edges, pts, i + 1,
                       [counts |-> r1.counts, self_counts |-> r1.self_counts,
                        seen_t |-> r.seen_t \cup r1.current_t])

EmptyMap == [x \in {} |-> {}]

count_support_between(edges, pts) ==
    IF Len(pts) = 0 THEN [counts |-> EmptyMap, self_counts |-> EmptyMap]
    ELSE IF Len(pts) = 1
    THEN [counts |-> EmptyMap, self_counts |-> (0 :> SetToSeq(pts[1]))]
    ELSE LET r == CountParts(edges, pts, 0,
                             [counts |-> EmptyMap, self_counts |-> EmptyMap,
                              seen_t |-> {}])
         IN [counts |-> r.counts, self_counts |-> r.self_counts]

\* the loop "for v in component" of proc_component without sites
RECURSIVE SupportEstimate(_, _)
SupportEstimate(cigar_index, nodes) ==
    IF nodes = <<>> THEN 0
    ELSE (IF cigar_index[Head(nodes)] # -1 THEN 2 ELSE 1)
           + SupportEstimate(cigar_index, Tail(nodes))

\* the connected component (edges of any weight) that holds node 0
RECURSIVE ComponentOf(_, _)
ComponentOf(edges, S) ==
    LET T == S \cup {edges[x][1] : x \in {y \in 1..Len(edges) : edges[y][2] \in S}}
               \cup {edges[x][2] : x \in {y \in 1..Len(edges) : edges[y][1] \in S}}
    IN IF T = S THEN S ELSE ComponentOf(edges, T)

PartPairs == {<<u, v>> \in (0..(PartNodes - 1)) \X (0..(PartNodes - 1)) : u < v}

\* the weights construct_graph gives: 0 site, 1 template, 2 local
Weights == {0, 1, 2}

\* every graph on PartNodes nodes with at most MaxPartEdges edges, as the
\* edge list in pair order
PartGraphs ==
    LET fs == {f \in [PartPairs -> Weights \cup {-1}] :
                 Cardinality({p \in PartPairs : f[p] >= 0}) <= MaxPartEdges}
        list(f) == LET ps == PairsToSeq({p \in PartPairs : f[p] >= 0})
                   IN [x \in 1..Len(ps) |-> <<ps[x][1], ps[x][2], f[ps[x]]>>]
    IN {list(f) : f \in fs}

PartIdle ==
    /\ comp_edges = <<>>
    /\ comp_cigar = <<>>
    /\ component = {}
    /\ ppc = "idle"
    /\ todo = {}
    /\ seen = {}
    /\ parts = <<>>
    /\ support_estimate = 0
    /\ counts = EmptyMap
    /\ self_counts = EmptyMap
    /\ jobs = <<>>

\* proc_component up to the support test
ProcStart ==
    /\ ppc = "start"
    /\ IF min_support >= 3 /\ Cardinality(component) = 1
       THEN /\ ppc' = "rejected"
            /\ UNCHANGED <<support_estimate, todo>>
       ELSE /\ support_estimate' = SupportEstimate(comp_cigar, SetToSeq(component))
            /\ IF support_estimate' < min_support
               THEN ppc' = "rejected" /\ UNCHANGED todo
               ELSE ppc' = "partition" /\ todo' = component
    /\ UNCHANGED <<comp_edges, comp_cigar, component, seen, parts, counts,
                   self_counts, jobs, svars, gvars, ivars, bvars, fvars>>

\* get_partitions: one iteration of "for u in nodes", in any order
PartitionStep ==
    /\ ppc = "partition"
    /\ \E u \in todo :
         LET r == PartitionNode(comp_edges, u, [seen |-> seen, parts |-> parts])
         IN /\ seen' = r.seen
            /\ parts' = r.parts
            /\ todo' = todo \ {u}
    /\ UNCHANGED <<comp_edges, comp_cigar, component, ppc, support_estimate,
                   counts, self_counts, jobs, svars, gvars, ivars, bvars,
                   fvars>>

\* count_support_between on the partitions get_partitions returned
CountSupport ==
    /\ ppc = "partition"
    /\ todo = {}
    /\ LET r == count_support_between(comp_edges, parts)
       IN /\ counts' = r.counts
          /\ self_counts' = r.self_counts
    /\ ppc' = "counted"
    /\ UNCHANGED <<comp_edges, comp_cigar, component, todo, seen, parts,
                   support_estimate, jobs, svars, gvars, ivars, bvars, fvars>>

\* counts[t] += 1 / self_counts[i] += 1 on a dict kept in insertion order
Bump(cs, t) ==
    IF \E x \in 1..Len(cs) : cs[x][1] = t
    THEN [x \in 1..Len(cs) |-> IF cs[x][1] = t THEN <<t, cs[x][2] + 1>>
                                ELSE cs[x]]
    ELSE Append(cs, <<t, 1>>)

\* p2i.get(child) of every child of every node of a partition, in loop order
RECURSIVE LinkTargets(_, _, _)
LinkTargets(edges, pts, nodes) ==
    IF nodes = <<>> THEN <<>>
    ELSE LET nb == neighbors(edges, Head(nodes))
         IN [x \in 1..Len(nb) |-> p2i(pts, nb[x])]
              \o LinkTargets(edges, pts, Tail(nodes))

\* the two inner loops of break_large_component for partition i;
\* r = [counts, self_counts, current_t]
RECURSIVE TallyLinks(_, _, _, _)
TallyLinks(i, targets, seen_t, r) ==
    IF targets = <<>> THEN r
    ELSE LET pj == Head(targets)
             t == IF pj < i THEN <<pj, i>> ELSE <<i, pj>>
         IN IF pj = -1 THEN TallyLinks(i, Tail(targets), seen_t, r)
            ELSE IF pj # i
            THEN IF t \in seen_t
                 THEN TallyLinks(i, Tail(targets), seen_t, r)
                 ELSE TallyLinks(i, Tail(targets), seen_t,
                         [r EXCEPT !.counts = Bump(@, t),
                                   !.current_t = @ \cup {t}])
            ELSE TallyLinks(i, Tail(targets), seen_t,
                    [r EXCEPT !.self_counts = Bump(@, i)])

\* "for i, p in enumerate(parts)"; r = [counts, self_counts, seen_t]
RECURSIVE TallyParts(_, _, _, _)
TallyParts(edges, pts, i, r) ==
    IF i >= Len(pts) THEN r
    ELSE LET r1 == TallyLinks(i, LinkTargets(edges, pts, SetToSeq(pts[i + 1])),
                              r.seen_t,
                              [counts |-> r.counts,
                               self_counts |-> r.self_counts,
                               current_t |-> {}])
         IN TallyParts(edges, pts, i + 1,
                       [counts |-> r1.counts, self_counts |-> r1.self_counts,
                        seen_t |-> r.seen_t \cup r1.current_t])

\* "b = parts[u]; b.extend(parts[v])": b is the array parts[u] itself
ExtendInPlace(arrs, u, v) == [arrs EXCEPT ![u + 1] = @ \o arrs[v + 1]]

\* "for (u, v), sup in counts.items()"; r = [parts, jobs, f], a job is
\* kept as the index of the array it is and the pair it was made for
RECURSIVE JoinPairs(_, _, _)
JoinPairs(cs, msup, r) ==
    IF cs = <<>> THEN r
    ELSE LET u == cs[1][1][1]
             v == cs[1][1][2]
         IN IF cs[1][2] >= msup
            THEN JoinPairs(Tail(cs), msup,
                    [parts |-> ExtendInPlace(r.parts, u, v),
                     jobs |-> Append(r.jobs,
                                 [pair |-> <<u, v>>, arr |-> u,
                                  nodes |-> r.parts[u + 1] \o r.parts[v + 1]]),
                     f |-> r.f \cup {u, v}])
            ELSE JoinPairs(Tail(cs), msup, r)

\* "for k, v in self_counts.items()"
RECURSIVE SelfJobs(_, _, _)
SelfJobs(sc, msup, r) ==
    IF sc = <<>> THEN r
    ELSE IF sc[1][2] >= msup /\ sc[1][1] \notin r.f
    THEN SelfJobs(Tail(sc), msup,
            [r EXCEPT !.jobs = Append(@, [pair |-> <<sc[1][1], sc[1][1]>>,
                                          arr |-> sc[1][1],
                                          nodes |-> r.parts[sc[1][1] + 1]])])
    ELSE SelfJobs(Tail(sc), msup, r)

\* break_large_component after get_partitions: the jobs, each with the pair
\* it was made for and the nodes its array holds when the function returns
break_large_component(edges, pts, msup) ==
    IF Len(pts) <= 1 THEN <<>>
    ELSE LET t == TallyParts(edges, pts, 0,
                             [counts |-> <<>>, self_counts |-> <<>>,
                              seen_t |-> {}])
             r == SelfJobs(t.self_counts, msup,
                     JoinPairs(t.counts, msup,
                        [parts |-> [x \in 1..Len(pts) |-> SetToSeq(pts[x])],
                         jobs |-> <<>>, f |-> {}]))
         IN [x \in 1..Len(r.jobs) |->
               [pair |-> r.jobs[x].pair,
                nodes |-> r.parts[r.jobs[x].arr + 1]]]

\* break_large_component on the partitions get_partitions returned
BreakLargeComponent ==
    /\ ppc = "partition"
    /\ todo = {}
    /\ jobs' = break_large_component(comp_edges, parts, min_support)
    /\ ppc' = "broken"
    /\ UNCHANGED <<comp_edges, comp_cigar, component, todo, seen, parts,
                   support_estimate, counts, self_counts, svars, gvars, ivars,
                   bvars, fvars>>


\* ========================================================================
\* coverage.pyx: get_read_length and get_insert_params.  A list of insert
\* sizes is kept as value -> occurrences; medians and deviations are kept
\* exactly, in quarters (x4) and squared quarters (x16).
\* ========================================================================
TlenValues == {300, 400}

EmptyInserts == [v \in TlenValues |-> 0]

RECURSIVE BagLen(_, _)
BagLen(bag, vs) ==
    IF vs = {} THEN 0
    ELSE LET v == CHOOSE x \in vs : TRUE
         IN bag[v] + BagLen(bag, vs \ {v})

\* L[i] of the sorted list, i from 0
BagAt(bag, i) ==
    CHOOSE v \in DOMAIN bag :
        /\ BagLen(bag, {x \in DOMAIN bag : x < v}) <= i
        /\ i < BagLen(bag, {x \in DOMAIN bag : x <= v})

\* median(L), for a list of values in unit u, in unit 2u
median(bag) ==
    LET n == BagLen(bag, DOMAIN bag)
    IN IF n % 2 = 1 THEN 2 * BagAt(bag, n \div 2)
       ELSE BagAt(bag, (n \div 2) - 1) + BagAt(bag, n \div 2)

\* [x - med for x in xs if x > med], in halves
UpperDeviations(bag, med2) ==
    LET ds == {2 * v - med2 : v \in {x \in DOMAIN bag : 2 * x > med2 /\ bag[x] > 0}}
    IN [d \in ds |-> bag[(d + med2) \div 2]]

\* unscaled_upper_mad: [ok, med (halves), umad (quarters)]; median of an
\* empty list raises IndexError
unscaled_upper_mad(bag) ==
    LET med2 == median(bag)
        up == UpperDeviations(bag, med2)
    IN IF BagLen(up, DOMAIN up) = 0 THEN [ok |-> FALSE, med2 |-> med2, umad4 |-> 0]
       ELSE [ok |-> TRUE, med2 |-> med2, umad4 |-> median(up)]

RECURSIVE SqSum(_, _, _)
SqSum(bag, vs, mean2) ==
    IF vs = {} THEN 0
    ELSE LET v == CHOOSE x \in vs : TRUE
         IN bag[v] * (4 * v - 2 * mean2) * (4 * v - 2 * mean2)
              + SqSum(bag, vs \ {v}, mean2)

\* a (centre, stdev) pair: centre in quarters, stdev as the sum of squared
\* deviations (x16) over n values
Params(median4, sq16, n) == [median4 |-> median4, sq16 |-> sq16, n |-> n]

ExactParams(insert_median, insert_stdev) ==
    Params(4 * insert_median, 16 * insert_stdev * insert_stdev, 1)

\* mean_std: the centre is np.median(L)
mean_std(bag) ==
    LET mean2 == median(bag)
    IN Params(2 * mean2, SqSum(bag, DOMAIN bag, mean2), BagLen(bag, DOMAIN bag))

\* get_insert_params: [ok, params]
get_insert_params(bag) ==
    LET m == unscaled_upper_mad(bag)
        upper_cutoff4 == 2 * m.med2 + Mads * m.umad4
        L == [v \in DOMAIN bag |-> IF 4 * v < upper_cutoff4 THEN bag[v] ELSE 0]
    IN IF ~m.ok \/ BagLen(L, DOMAIN L) = 0
       THEN [ok |-> FALSE, params |-> Params(0, 0, 0)]
       ELSE [ok |-> TRUE, params |-> mean_std(L)]

\* the arguments get_read_length can be called with
InsertArgs ==
    { [read_len |-> -1, insert_median |-> -1, insert_stdev |-> -1],
      [read_len |-> -1, insert_median |-> 500, insert_stdev |-> 50],
      [read_len |-> 150, insert_median |-> 500, insert_stdev |-> 50] }

InsertIdle ==
    /\ inserts = EmptyInserts
    /\ n_lengths = 0
    /\ ipc = "idle"
    /\ iargs = [read_len |-> 0, insert_median |-> 0, insert_stdev |-> 0]
    /\ insert_params = Params(0, 0, 0)

\* read_len != -1: return insert_median, insert_stdev as given
GivenReadLength ==
    /\ ipc = "start"
    /\ iargs.read_len # -1
    /\ insert_params' = ExactParams(iargs.insert_median, iargs.insert_stdev)
    /\ ipc' = "returned"
    /\ UNCHANGED <<inserts, n_lengths, iargs, svars, gvars, pvars, bvars, fvars>>

BeginSampling ==
    /\ ipc = "start"
    /\ iargs.read_len = -1
    /\ ipc' = "sampling"
    /\ UNCHANGED <<inserts, n_lengths, iargs, insert_params, svars, gvars, pvars, bvars, fvars>>

\* one iteration of "for a in file_iter" for a record with a sequence and a
\* read length: it is a usable insert (same chromosome, flag & mask =
\* required, tlen >= 0) or not
SampleRead ==
    /\ ipc = "sampling"
    /\ n_lengths' = n_lengths + 1
    /\ \/ /\ BagLen(inserts, DOMAIN inserts) < MaxInserts
          /\ \E tlen \in TlenValues : inserts' = [inserts EXCEPT ![tlen] = @ + 1]
       \/ /\ n_lengths - BagLen(inserts, DOMAIN inserts) < MaxOther
          /\ UNCHANGED inserts
    /\ UNCHANGED <<ipc, iargs, insert_params, svars, gvars, pvars, bvars, fvars>>

\* the end of the input: the part of get_read_length after the loop
EndSampling ==
    /\ ipc = "sampling"
    /\ IF n_lengths = 0
       THEN ipc' = "quit" /\ UNCHANGED insert_params
       ELSE IF BagLen(inserts, DOMAIN inserts) <= MinInserts
               /\ iargs.insert_median = -1
       THEN /\ insert_params' = ExactParams(DefaultInsertMedian, DefaultInsertStdev)
            /\ ipc' = "returned"
       ELSE IF iargs.insert_median = -1
       THEN LET r == get_insert_params(inserts)
            IN IF r.ok
               THEN insert_params' = r.params /\ ipc' = "returned"
               ELSE ipc' = "failed" /\ UNCHANGED insert_params
       ELSE /\ insert_params' = ExactParams(iargs.insert_median, iargs.insert_stdev)
            /\ ipc' = "returned"
    /\ UNCHANGED <<inserts, n_lengths, iargs, svars, gvars, pvars, bvars, fvars>>


\* ========================================================================
\* coverage.pyx: GenomeScanner.add_to_buffer, fed by the (record, tell)
\* pairs of _get_reads as add_to_graph makes nodes from them
\* ========================================================================
\* buf = [first, read_buffer, raised]
add_to_buffer(buf, n1, file_tell) ==
    IF buf.first = 1 \/ file_tell = -1
    THEN [buf EXCEPT !.read_buffer = @ \cup {n1}, !.first = 0]
    ELSE IF Cardinality(buf.read_buffer) < buff_size
    THEN [buf EXCEPT !.read_buffer = @ \cup {n1}]
    ELSE IF no_tell THEN [buf EXCEPT !.raised = TRUE]
    ELSE buf

BufferIdle ==
    /\ buff_size = 0
    /\ no_tell = FALSE
    /\ from_regions = FALSE
    /\ first = 1
    /\ read_buffer = {}
    /\ scan_tell = 0
    /\ rec_tell = <<>>
    /\ n_recs = 0
    /\ bpc = "idle"

\* _get_reads, region branch: "for c, s, e in itv: tell = -1"
NewInterval ==
    /\ bpc = "run"
    /\ from_regions
    /\ scan_tell # -1
    /\ scan_tell' = -1
    /\ rec_tell' = <<>>
    /\ UNCHANGED <<buff_size, no_tell, from_regions, first, read_buffer,
                   n_recs, bpc, svars, gvars, pvars, ivars, fvars>>

\* _get_reads: "self._add_to_bin_buffer(a, tell);
\* tell = 0 if self.no_tell else self.input_bam.tell()"; the record reaches
\* the loop of construct_graph with the tell it was stored with
StageRecord ==
    /\ bpc = "run"
    /\ n_recs < MaxBufReads
    /\ rec_tell' = <<scan_tell>>
    /\ scan_tell' = IF no_tell THEN 0 ELSE n_recs + 2
    /\ n_recs' = n_recs + 1
    /\ UNCHANGED <<buff_size, no_tell, from_regions, first, read_buffer, bpc,
                   svars, gvars, pvars, ivars, fvars>>

\* add_to_graph: "genome_scanner.add_to_buffer(r, node_name, tell)" for a
\* node made from the current record
AddToBuffer ==
    /\ bpc = "run"
    /\ rec_tell # <<>>
    /\ Cardinality(read_buffer) < MaxBufNodes
    /\ \E n1 \in 0..MaxBufNodes :
         /\ n1 \notin read_buffer
         /\ \A x \in read_buffer : x < n1
         /\ LET buf == add_to_buffer([first |-> first,
                                      read_buffer |-> read_buffer,
                                      raised |-> FALSE], n1, rec_tell[1])
            IN /\ first' = buf.first
               /\ read_buffer' = buf.read_buffer
               /\ bpc' = IF buf.raised THEN "overflow" ELSE bpc
    /\ UNCHANGED <<buff_size, no_tell, from_regions, scan_tell, rec_tell,
                   n_recs, svars, gvars, pvars, ivars, fvars>>

\* ------------------------------------------------------------------------
\* construct_graph
\* ------------------------------------------------------------------------
InitPeScope ==
    [local_chrom |-> -1, loci |-> <<>>, chrom_scope |-> [c \in 0..NRef |-> <<>>]]

InitClipScope == [side |-> [x \in {1, 2} |-> EmptySide], current_chrom |-> 0]

InitSiteAdder(queue) ==
    [sites_queue |-> queue, scope |-> <<>>,
     sites_index_r |-> [x \in SiteIds |-> -1], current_chrom |-> -1,
     count |-> 0]

\* ------------------------------------------------------------------------
\* PairedEndScoper on its own: the find_other_nodes / add_item pair that
\* add_to_graph runs for every node that is not a BREAKEND
\* ------------------------------------------------------------------------
Pair(chrom, event_pos, chrom2, pos2, read_enum, len) ==
    [chrom |-> chrom, event_pos |-> event_pos, chrom2 |-> chrom2,
     pos2 |-> pos2, read_enum |-> read_enum, len |-> len]

\* the breakpoint pairs add_to_graph is given, in the order of the input
FindEvents ==
    << Pair(0, 1000, 1, 5000, DISCORDANT, 0),
       Pair(0, 1000, 0, 1105, DELETION, 105),
       Pair(0, 1005, 1, 5100, DISCORDANT, 0),
       Pair(0, 1010, 1, 5003, SPLIT, 0),
       Pair(0, 1020, 1, 4990, DISCORDANT, 0),
       Pair(0, 1040, 1, 5300, DISCORDANT, 0),
       Pair(0, 1045, 1, 4790, DISCORDANT, 0),
       Pair(0, 1100, 0, 1100, INSERTION, 100),
       Pair(0, 1002, 0, 1100, DELETION, 98),
       Pair(0, 1110, 0, 1110, INSERTION, 10),
       Pair(0, 1112, 0, 1112, INSERTION, 100),
       Pair(1, 5000, 1, 5600, DISCORDANT, 0),
       Pair(1, 5050, 1, 5610, DISCORDANT, 0) >>

\* the arguments of find_other_nodes for the node about to be added
QueryOf(ev, node_name, spd) ==
    [node_name |-> node_name, current_chrom |-> ev.chrom,
     current_pos |-> ev.event_pos, chrom2 |-> ev.chrom2, pos2 |-> ev.pos2,
     read_enum |-> ev.read_enum, length_from_cigar |-> ev.len, spd |-> spd]

Looked(r, q, e) ==
    /\ fscope' = r.pe
    /\ fcall' = << [q |-> q, found_exact |-> r.found_exact,
                    found2 |-> r.found2, found |-> Returned(r).found] >>
    /\ fe' = e

\* add_to_graph up to the return of find_other_nodes
FindOtherNodes ==
    /\ fcall = <<>>
    /\ fn < MaxFind
    /\ \E e \in (fe + 1)..Len(FindEvents) :
         \E spd \in SUBSET (0..(fn - 1)) :
           Looked(SearchScopes(fscope, QueryOf(FindEvents[e], fn, spd)),
                  QueryOf(FindEvents[e], fn, spd), e)
    /\ UNCHANGED <<svars, gvars, pvars, ivars, bvars, fn>>

\* add_to_graph from the return of find_other_nodes: add_item
AddItem ==
    /\ fcall # <<>>
    /\ LET q == fcall[1].q
       IN fscope' = add_item(fscope, q.node_name, q.current_chrom,
                             q.current_pos, q.chrom2, q.pos2, q.read_enum,
                             q.length_from_cigar)
    /\ fcall' = <<>>
    /\ fn' = fn + 1
    /\ UNCHANGED <<svars, gvars, pvars, ivars, bvars, fe>>

FindIdle ==
    /\ fscope = InitPeScope
    /\ fcall = <<>>
    /\ fe = 0
    /\ fn = 0

GraphIdle ==
    /\ G = [n |-> 0, edges |-> <<>>]
    /\ node_to_name = <<>>
    /\ pe_scope = InitPeScope
    /\ template_edges = [q \in QNames |-> <<>>]
    /\ clip_scope = InitClipScope
    /\ site_adder = InitSiteAdder(NoSites)
    /\ has_sites = FALSE
    /\ mm_only = FALSE
    /\ paired_end = TRUE
    /\ minimizer_support_thresh = MinimizerSupportThresh
    /\ gpc = "idle"
    /\ ge = 0
    /\ node_enum = <<>>

Bundle ==
    [G |-> G, node_to_name |-> node_to_name, pe_scope |-> pe_scope,
     template_edges |-> template_edges, clip_scope |-> clip_scope,
     site_adder |-> site_adder, crashed |-> FALSE]

Unbundle(b) ==
    /\ G' = b.G
    /\ node_to_name' = b.node_to_name
    /\ pe_scope' = b.pe_scope
    /\ template_edges' = b.template_edges
    /\ clip_scope' = b.clip_scope
    /\ site_adder' = b.site_adder

\* one call of process_alignment from the loop of construct_graph
ProcessAlignment ==
    /\ gpc = "build"
    /\ G.n < MaxNodes
    /\ \E e \in (ge + 1)..Len(GEvents) :
         LET ev == GEvents[e]
         IN /\ ge' = e
            /\ IF paired_end /\ ev.read_enum = SPLIT /\ BitAnd(ev.flag, 8) # 0
               THEN UNCHANGED <<G, node_to_name, pe_scope, template_edges,
                                clip_scope, site_adder, gpc>>
               ELSE LET b1 == IF has_sites
                              THEN add_any_sites(Bundle, ev.chrom, ev.event_pos,
                                                 ClstDist)
                              ELSE Bundle
                    IN IF b1.crashed \/ ev.skip
                       THEN /\ Unbundle(b1)
                            /\ gpc' = IF b1.crashed THEN "crashed" ELSE gpc
                       ELSE /\ gpc' = gpc
                            /\ \E spd \in SUBSET (0..(b1.G.n - 1)) :
                                 Unbundle(add_to_graph(b1, ev, e, spd,
                                                       has_sites, mm_only))
    /\ UNCHANGED <<svars, nongraph, gcfgvars, node_enum>>

\* the end of the scan: the template flush
Finish ==
    /\ gpc = "build"
    /\ G' = IF paired_end THEN add_template_edges(G, template_edges) ELSE G
    /\ gpc' = "done"
    /\ UNCHANGED <<svars, nongraph, gcfgvars, node_to_name, pe_scope, template_edges,
                   clip_scope, site_adder, ge, node_enum>>

ScannerIdle ==
    /\ input = <<>>
    /\ stdin = FALSE
    /\ regions_only = FALSE
    /\ include_regions = <<>>
    /\ max_cov = 1
    /\ gs = InitScanner
    /\ pc = "idle"
    /\ nxt = 1
    /\ n_sampled = 0
    /\ itv = <<>>
    /\ k = 0
    /\ j = 0
    /\ tell = 0
    /\ seen_reads = {}
    /\ fed = <<>>
    /\ overcov = {}
    /\ emitted = <<>>

InitGraph ==
    /\ ScannerIdle
    /\ PartIdle
    /\ InsertIdle
    /\ BufferIdle
    /\ FindIdle
    /\ G = [n |-> 0, edges |-> <<>>]
    /\ node_to_name = <<>>
    /\ pe_scope = InitPeScope
    /\ template_edges = [q \in QNames |-> <<>>]
    /\ clip_scope = InitClipScope
    /\ \E queue \in SiteChoices :
          /\ site_adder = InitSiteAdder(queue)
          /\ has_sites = (queue # NoSites)
    /\ mm_only \in BOOLEAN
    /\ minimizer_support_thresh = MinimizerSupportThresh
    /\ paired_end \in BOOLEAN
    /\ gpc = "build"
    /\ ge = 0
    /\ node_enum = <<>>

NextGraph ==
    \/ ProcessAlignment
    \/ Finish

SpecGraph == InitGraph /\ [][NextGraph]_vars

\* construct_graph given sites that lie close together
NearSiteChoices ==
    { [c \in Chroms |-> IF c = 1
          THEN << Site(1, 1, 990, 1, 990, "INS", 40),
                  Site(2, 1, 1080, 1, 1080, "INS", 40) >> ELSE <<>>],
      [c \in Chroms |-> IF c = 1
          THEN << Site(1, 1, 990, 1, 990, "INS", 40),
                  Site(2, 1, 1040, 1, 1040, "INS", 40) >> ELSE <<>>],
      [c \in Chroms |-> IF c = 0
          THEN << Site(1, 0, 1020, 1, 1000, "BND", 0),
                  Site(2, 0, 1320, 0, 1320, "INS", 40) >>
          ELSE << Site(3, 1, 1000, 1, 1000, "INS", 40),
                  Site(4, 1, 1120, 1, 1120, "INS", 40) >>] }

InitSites ==
    /\ ScannerIdle
    /\ PartIdle
    /\ InsertIdle
    /\ BufferIdle
    /\ FindIdle
    /\ G = [n |-> 0, edges |-> <<>>]
    /\ node_to_name = <<>>
    /\ pe_scope = InitPeScope
    /\ template_edges = [q \in QNames |-> <<>>]
    /\ clip_scope = InitClipScope
    /\ \E queue \in NearSiteChoices : site_adder = InitSiteAdder(queue)
    /\ has_sites = TRUE
    /\ mm_only = FALSE
    /\ minimizer_support_thresh = MinimizerSupportThresh
    /\ paired_end \in BOOLEAN
    /\ gpc = "build"
    /\ ge = 0
    /\ node_enum = <<>>

SpecSites == InitSites /\ [][NextGraph]_vars

\* ------------------------------------------------------------------------
\* construct_graph on reads that carry nothing but soft clips: every
\* alignment is a breakend and add_to_graph hands it to cluster_clipped
\* ------------------------------------------------------------------------
Breakend(qname, pos, clipL, clipR) ==
    Ev(qname, 73, 0, pos, pos, InsChrom, pos, BREAKEND, -1, 0, 30, clipL, clipR,
       FALSE)

ClipEvents ==
    << Breakend(1, 2000, {1, 2}, {}),
       Breakend(2, 2001, {1, 2}, {}),
       Breakend(3, 2002, {1, 2}, {}),
       Breakend(4, 2003, {1, 2}, {}),
       Breakend(5, 2004, {1, 2}, {}),
       Breakend(6, 2004, {}, {1, 2}),
       Breakend(7, 2005, {1, 2}, {1, 2}),
       Breakend(8, 2010, {1, 2}, {}),
       Breakend(9, 2030, {1, 2}, {}),
       Breakend(9, 2050, {1}, {}) >>

\* one breakend through add_to_graph
ProcessBreakend ==
    /\ gpc = "build"
    /\ G.n < MaxClip
    /\ \E e \in (ge + 1)..Len(ClipEvents) :
         /\ ge' = e
         /\ Unbundle(add_to_graph(Bundle, ClipEvents[e], e, {}, FALSE, FALSE))
    /\ UNCHANGED <<svars, nongraph, gcfgvars, gpc, node_enum>>

InitClip ==
    /\ ScannerIdle
    /\ PartIdle
    /\ InsertIdle
    /\ BufferIdle
    /\ FindIdle
    /\ G = [n |-> 0, edges |-> <<>>]
    /\ node_to_name = <<>>
    /\ pe_scope = InitPeScope
    /\ template_edges = [q \in QNames |-> <<>>]
    /\ clip_scope = InitClipScope
    /\ site_adder = InitSiteAdder(NoSites)
    /\ has_sites = FALSE
    /\ mm_only = FALSE
    /\ minimizer_support_thresh \in 1..(MinimizerSupportThresh + 1)
    /\ paired_end \in BOOLEAN
    /\ gpc = "build"
    /\ ge = 0
    /\ node_enum = <<>>

NextClip == ProcessBreakend

SpecClip == InitClip /\ [][NextClip]_vars

\* overlap_regions of the scanner handed to construct_graph; process_alignment
\* looks at them only when mm_only is set
RoiChoices == { <<>>, FullRegions }

\* one record of the loop of construct_graph: every process_alignment call
\* made for it
\* the assignments that end one turn of the loop
Advance(st, e) ==
    /\ ge' = e
    /\ Unbundle(st.b)
    /\ node_enum' = st.enums
    /\ gpc' = IF st.b.crashed THEN "crashed" ELSE gpc

ReadRecord ==
    /\ gpc = "build"
    /\ G.n < MaxNodes
    /\ \E e \in (ge + 1)..Len(Records) :
         \E spd \in SUBSET (0..G.n) :
           Advance(ProcessCalls([b |-> Bundle, enums |-> node_enum],
                                Records[e], ReadCalls(Records[e]), e, spd), e)
    /\ UNCHANGED <<svars, nongraph, gcfgvars>>

InitReads ==
    /\ mm_only \in BOOLEAN
    /\ minimizer_support_thresh = MinimizerSupportThresh
    /\ input = <<>>
    /\ stdin = FALSE
    /\ regions_only = FALSE
    /\ include_regions \in (IF mm_only THEN RoiChoices ELSE {<<>>})
    /\ max_cov = 1
    /\ gs = InitScanner
    /\ pc = "idle"
    /\ nxt = 1
    /\ n_sampled = 0
    /\ itv = <<>>
    /\ k = 0
    /\ j = 0
    /\ tell = 0
    /\ seen_reads = {}
    /\ fed = <<>>
    /\ overcov = {}
    /\ emitted = <<>>
    /\ PartIdle
    /\ InsertIdle
    /\ BufferIdle
    /\ FindIdle
    /\ G = [n |-> 0, edges |-> <<>>]
    /\ node_to_name = <<>>
    /\ pe_scope = InitPeScope
    /\ template_edges = [q \in QNames |-> <<>>]
    /\ clip_scope = InitClipScope
    /\ \E queue \in SiteChoices :
          /\ site_adder = InitSiteAdder(queue)
          /\ has_sites = (queue # NoSites)
    /\ paired_end \in BOOLEAN
    /\ gpc = "build"
    /\ ge = 0
    /\ node_enum = <<>>

NextReads ==
    \/ ReadRecord
    \/ Finish

SpecReads == InitReads /\ [][NextReads]_vars

\* proc_component on a component of a graph
InitPart ==
    /\ ScannerIdle
    /\ GraphIdle
    /\ InsertIdle
    /\ BufferIdle
    /\ FindIdle
    /\ comp_edges \in PartGraphs
    /\ comp_cigar \in [0..(PartNodes - 1) -> {-1, 1}]
    /\ component = ComponentOf(comp_edges, {0})
    /\ ppc = "start"
    /\ todo = {}
    /\ seen = {}
    /\ parts = <<>>
    /\ support_estimate = 0
    /\ counts = EmptyMap
    /\ self_counts = EmptyMap
    /\ jobs = <<>>

NextPart ==
    \/ ProcStart
    \/ PartitionStep
    \/ CountSupport

SpecPart == InitPart /\ [][NextPart]_vars

\* components of three or two partitions (nodes joined by edges of weight
\* 2) with template edges (weight 1) between the partitions: one partition
\* linked to both others, a chain of three, three linked all round, and a
\* partition with links inside next to a weakly linked one
BreakGraphs ==
    { << <<0, 1, 2>>, <<2, 3, 2>>, <<4, 5, 2>>,
         <<0, 2, 1>>, <<0, 3, 1>>, <<1, 2, 1>>,
         <<0, 4, 1>>, <<0, 5, 1>>, <<1, 4, 1>> >>,
      << <<0, 1, 2>>, <<2, 3, 2>>, <<4, 5, 2>>,
         <<0, 2, 1>>, <<0, 3, 1>>, <<1, 2, 1>>,
         <<2, 4, 1>>, <<2, 5, 1>>, <<3, 4, 1>> >>,
      << <<0, 1, 2>>, <<2, 3, 2>>, <<4, 5, 2>>,
         <<0, 2, 1>>, <<0, 3, 1>>, <<1, 2, 1>>,
         <<0, 4, 1>>, <<0, 5, 1>>, <<1, 4, 1>>,
         <<2, 4, 1>>, <<2, 5, 1>>, <<3, 4, 1>> >>,
      << <<0, 1, 2>>, <<1, 2, 2>>, <<3, 4, 2>>, <<0, 3, 1>> >> }

\* break_large_component on a component of several partitions
InitBreak ==
    /\ ScannerIdle
    /\ GraphIdle
    /\ InsertIdle
    /\ BufferIdle
    /\ FindIdle
    /\ comp_edges \in BreakGraphs
    /\ comp_cigar = <<>>
    /\ component = ComponentOf(comp_edges, {0})
    /\ ppc = "partition"
    /\ todo = component
    /\ seen = {}
    /\ parts = <<>>
    /\ support_estimate = 0
    /\ counts = EmptyMap
    /\ self_counts = EmptyMap
    /\ jobs = <<>>

NextBreak ==
    \/ PartitionStep
    \/ BreakLargeComponent

SpecBreak == InitBreak /\ [][NextBreak]_vars

\* get_read_length on a stream of records
InitInsert ==
    /\ ScannerIdle
    /\ GraphIdle
    /\ PartIdle
    /\ BufferIdle
    /\ FindIdle
    /\ inserts = EmptyInserts
    /\ n_lengths = 0
    /\ ipc = "start"
    /\ iargs \in InsertArgs
    /\ insert_params = Params(0, 0, 0)

NextInsert ==
    \/ GivenReadLength
    \/ BeginSampling
    \/ SampleRead
    \/ EndSampling

SpecInsert == InitInsert /\ [][NextInsert]_vars

\* GenomeScanner.__init__ and the start of _get_reads
InitBuffer ==
    /\ ScannerIdle
    /\ GraphIdle
    /\ PartIdle
    /\ InsertIdle
    /\ FindIdle
    /\ buff_size \in 0..MaxBuff
    /\ no_tell \in BOOLEAN
    /\ from_regions \in BOOLEAN
    /\ first = 1
    /\ read_buffer = {}
    /\ scan_tell = IF from_regions THEN -1 ELSE IF no_tell THEN 0 ELSE 1
    /\ rec_tell = <<>>
    /\ n_recs = 0
    /\ bpc = "run"

NextBuffer ==
    \/ NewInterval
    \/ StageRecord
    \/ AddToBuffer

SpecBuffer == InitBuffer /\ [][NextBuffer]_vars

\* find_other_nodes and add_item over the breakpoint pairs
InitFind ==
    /\ ScannerIdle
    /\ GraphIdle
    /\ PartIdle
    /\ InsertIdle
    /\ BufferIdle
    /\ FindIdle

NextFind ==
    \/ FindOtherNodes
    \/ AddItem

SpecFind == InitFind /\ [][NextFind]_vars



WholeGenome == include_regions = <<>> \/ ~regions_only

Init ==
    /\ input \in Streams
    /\ stdin \in BOOLEAN
    /\ regions_only \in BOOLEAN
    /\ include_regions \in RegionChoices
    /\ max_cov \in 1..MaxCov
    /\ (regions_only => (include_regions # <<>> /\ ~stdin))
    /\ GraphIdle
    /\ PartIdle
    /\ InsertIdle
    /\ BufferIdle
    /\ FindIdle
    /\ gs = InitScanner
    /\ pc = IF stdin THEN "prelude" ELSE "scan"
    /\ nxt = 1
    /\ n_sampled = 0
    /\ itv = <<>>
    /\ k = 0
    /\ j = 0
    /\ tell = 0
    /\ seen_reads = {}
    /\ fed = <<>>
    /\ overcov = {}
    /\ emitted = <<>>

\* ------------------------------------------------------------------------
\* get_read_length on a stream without random access: every record read is
\* handed to _add_to_bin_buffer; the loop stops on the record that finds the
\* sample full.
\* ------------------------------------------------------------------------
PreludeRead ==
    /\ pc = "prelude"
    /\ nxt <= Len(input)
    /\ LET a == input[nxt]
       IN /\ gs' = _add_to_bin_buffer(gs, nxt, a, 0)
          /\ overcov' = overcov \cup OverCovDiscards(gs, nxt, a)
          /\ fed' = Append(fed, nxt)
          /\ IF n_sampled < MaxSample
             THEN /\ n_sampled' = IF a.seq /\ a.cigar THEN n_sampled + 1
                                  ELSE n_sampled
                  /\ pc' = pc
             ELSE /\ n_sampled' = n_sampled
                  /\ pc' = "scan"
    /\ nxt' = nxt + 1
    /\ UNCHANGED <<nonscan, cfgvars, itv, k, j, tell, seen_reads, emitted>>

PreludeEnd ==
    /\ pc = "prelude"
    /\ nxt > Len(input)
    /\ pc' = IF n_sampled = 0 THEN "quit" ELSE "scan"
    /\ UNCHANGED <<nonscan, cfgvars, gs, nxt, n_sampled, itv, k, j, tell, seen_reads,
                   fed, overcov, emitted>>

\* ------------------------------------------------------------------------
\* _get_reads, whole-genome branch
\* ------------------------------------------------------------------------
WGStart ==
    /\ pc = "scan"
    /\ WholeGenome
    /\ emitted' = emitted \o gs.staged_reads
    /\ gs' = Drained(gs)
    /\ tell' = IF stdin THEN 0 ELSE nxt
    /\ pc' = "iter"
    /\ UNCHANGED <<nonscan, cfgvars, nxt, n_sampled, itv, k, j, seen_reads, fed, overcov>>

WGRead ==
    /\ pc = "iter"
    /\ nxt <= Len(input)
    /\ LET a == input[nxt]
           s1 == _add_to_bin_buffer(gs, nxt, a, tell)
       IN /\ emitted' = emitted \o s1.staged_reads
          /\ gs' = Drained(s1)
          /\ overcov' = overcov \cup OverCovDiscards(gs, nxt, a)
    /\ fed' = Append(fed, nxt)
    /\ tell' = IF stdin THEN 0 ELSE nxt + 1
    /\ nxt' = nxt + 1
    /\ UNCHANGED <<nonscan, cfgvars, pc, n_sampled, itv, k, j, seen_reads>>

WGEnd ==
    /\ pc = "iter"
    /\ nxt > Len(input)
    /\ emitted' = IF Len(gs.current_bin) > 0
                  THEN Append(emitted, gs.current_bin) ELSE emitted
    /\ pc' = "done"
    /\ UNCHANGED <<nonscan, cfgvars, gs, nxt, n_sampled, itv, k, j, tell, seen_reads,
                   fed, overcov>>

\* ------------------------------------------------------------------------
\* _get_reads, region branch
\* ------------------------------------------------------------------------
CurrentFetch == Fetch(itv[k][1], itv[k][2], itv[k][3])

NameOf(a) == <<a.qn, a.flag, a.pos>>

RegionStart ==
    /\ pc = "scan"
    /\ ~WholeGenome
    /\ itv' = merge_intervals(intervals_to_check)
    /\ seen_reads' = {}
    /\ k' = 1
    /\ j' = 0
    /\ tell' = -1
    /\ pc' = "fetch"
    /\ UNCHANGED <<nonscan, cfgvars, gs, nxt, n_sampled, fed, overcov, emitted>>

RegionRead ==
    /\ pc = "fetch"
    /\ k <= Len(itv)
    /\ j < Len(CurrentFetch)
    /\ LET id == CurrentFetch[j + 1]
           a == input[id]
       IN IF NameOf(a) \in seen_reads
          THEN UNCHANGED <<gs, tell, seen_reads, fed, overcov, emitted>>
          ELSE LET s1 == _add_to_bin_buffer(gs, id, a, tell)
               IN /\ emitted' = emitted \o s1.staged_reads
                  /\ gs' = Drained(s1)
                  /\ overcov' = overcov \cup OverCovDiscards(gs, id, a)
                  /\ fed' = Append(fed, id)
                  /\ tell' = id + 1
                  /\ seen_reads' = seen_reads \cup {NameOf(a)}
    /\ j' = j + 1
    /\ UNCHANGED <<nonscan, cfgvars, pc, nxt, n_sampled, itv, k>>

RegionIntervalEnd ==
    /\ pc = "fetch"
    /\ k <= Len(itv)
    /\ j >= Len(CurrentFetch)
    /\ emitted' = IF Len(gs.current_bin) > 0
                  THEN Append(emitted, gs.current_bin) ELSE emitted
    /\ k' = k + 1
    /\ j' = 0
    /\ tell' = -1
    /\ pc' = IF k + 1 > Len(itv) THEN "done" ELSE pc
    /\ UNCHANGED <<nonscan, cfgvars, gs, nxt, n_sampled, itv, seen_reads, fed, overcov>>

\* ------------------------------------------------------------------------
\* iter_genome after the last batch of _get_reads: total_reads is the sum of
\* the lengths of the batches it yielded
\* ------------------------------------------------------------------------
total_reads == Len(Concat(emitted))

IterGenomeEnd ==
    /\ pc = "done"
    /\ pc' = IF total_reads = 0 THEN "noreads" ELSE "finished"
    /\ UNCHANGED <<nonscan, cfgvars, gs, nxt, n_sampled, itv, k, j, tell,
                   seen_reads, fed, overcov, emitted>>

Next ==
    \/ PreludeRead
    \/ PreludeEnd
    \/ WGStart
    \/ WGRead
    \/ WGEnd
    \/ RegionStart
    \/ RegionRead
    \/ RegionIntervalEnd
    \/ IterGenomeEnd

Spec == Init /\ [][Next]_vars

\* ------------------------------------------------------------------------
\* Observations used by the properties
\* ------------------------------------------------------------------------
IdsOf(batch) == [x \in 1..Len(batch) |-> batch[x][1]]

EmittedSeq == Concat([b \in 1..Len(emitted) |-> IdsOf(emitted[b])])

EmittedIds == {EmittedSeq[x] : x \in 1..Len(EmittedSeq)}

FedIds == {fed[x] : x \in 1..Len(fed)}

Unusable(a) == BitAnd(a.flag, 1540) # 0 \/ ~a.cigar \/ ~a.seq

Admitted == {x \in FedIds : ~Unusable(input[x])}

RECURSIVE SumOver(_, _)
SumOver(S, f) ==
    IF S = {} THEN 0
    ELSE LET x == CHOOSE y \in S : TRUE
         IN f[x] + SumOver(S \ {x}, f)

\* ------------------------------------------------------------------------
\* C1: a record with a flag bit of 0x604 set, or without CIGAR or sequence,
\* is never part of an emitted batch (so add_to_graph never sees it), in
\* whole-genome mode, region mode and the stdin prelude alike.
\* ------------------------------------------------------------------------
C1_FilteredNeverEmitted ==
    \A x \in 1..Len(EmittedSeq) : ~Unusable(input[EmittedSeq[x]])

C1_Witness ==
    /\ pc = "done"
    /\ \E x \in FedIds : BitAnd(input[x].flag, 1540) # 0
    /\ \E x \in FedIds : ~input[x].cigar \/ ~input[x].seq
    /\ EmittedIds # {}

\* ------------------------------------------------------------------------
\* C2: in whole-genome mode the emitted records are a subsequence of the
\* input stream: input order, no record twice, positions non-decreasing
\* within a chromosome.
\* ------------------------------------------------------------------------
C2_EmittedIsSubsequence ==
    WholeGenome =>
        \A x, y \in 1..Len(EmittedSeq) :
            x < y =>
                /\ EmittedSeq[x] < EmittedSeq[y]
                /\ (input[EmittedSeq[x]].rname = input[EmittedSeq[y]].rname
                      => input[EmittedSeq[x]].pos <= input[EmittedSeq[y]].pos)

C2_Witness ==
    /\ WholeGenome
    /\ pc = "done"
    /\ Len(emitted) >= 2
    /\ Len(EmittedSeq) >= 2
    /\ gs.reads_dropped > 0

\* ------------------------------------------------------------------------
\* C3: in region mode no alignment (qname_hash, flag, pos) is emitted more
\* than once over the pass.
\* ------------------------------------------------------------------------
C3_NoDuplicateEmission ==
    ~WholeGenome =>
        \A x, y \in 1..Len(EmittedSeq) :
            x # y => NameOf(input[EmittedSeq[x]]) # NameOf(input[EmittedSeq[y]])

\* ------------------------------------------------------------------------
\* C4: region mode over one region per chromosome emits the record sequence
\* that whole-genome mode emits on the same input and configuration.
\* ------------------------------------------------------------------------
RECURSIVE WholeGenomeRun(_, _, _)
WholeGenomeRun(s, out, i) ==
    IF i > Len(input)
    THEN IF Len(s.current_bin) > 0 THEN Append(out, s.current_bin) ELSE out
    ELSE LET s1 == _add_to_bin_buffer(s, i, input[i], i)
         IN WholeGenomeRun(Drained(s1), out \o s1.staged_reads, i + 1)

WholeGenomeSeq ==
    LET out == WholeGenomeRun(InitScanner, <<>>, 1)
    IN Concat([b \in 1..Len(out) |-> IdsOf(out[b])])

C4_RegionEqualsWholeGenome ==
    (pc = "done" /\ ~WholeGenome /\ include_regions = FullRegions)
        => EmittedSeq = WholeGenomeSeq

\* ------------------------------------------------------------------------
\* C5: the records of a current bin discarded by the over-coverage rule,
\* and the incoming record, are never emitted in a batch.
\* ------------------------------------------------------------------------
C5_OverCovNeverEmitted == overcov \cap EmittedIds = {}

\* ------------------------------------------------------------------------
\* C6: reads_dropped counts every admitted record that was discarded and
\* never emitted: at the end of the scan every admitted record is either
\* emitted or counted.
\* ------------------------------------------------------------------------
C6_DroppedCount ==
    pc = "done" => gs.reads_dropped = Cardinality(Admitted \ EmittedIds)

\* ------------------------------------------------------------------------
\* C7: max_cov caps the per-100-bp read count.  As claimed: no batch of
\* records outside every region of interest holds more than max_cov
\* records.
\* ------------------------------------------------------------------------
OutsideRoi(batch) ==
    \A x \in 1..Len(batch) :
        ~InRoi(input[batch[x][1]].rname, input[batch[x][1]].pos)

C7_BatchCountCapped ==
    \A b \in 1..Len(emitted) :
        OutsideRoi(emitted[b]) => Len(emitted[b]) <= max_cov

\* C7 as amended: the cap is on fractional depth.  In every emitted batch
\* of records outside every region of interest, the records of one
\* chromosome are a single record, or their start-bin contributions
\* (100 - pos mod 100, in hundredths) sum to less than max_cov.
StartContribution(batch) ==
    [x \in 1..Len(batch) |-> BinSize - (input[batch[x][1]].pos % BinSize)]

C7_BatchDepthCapped ==
    \A b \in 1..Len(emitted) : \A c \in Chroms :
        OutsideRoi(emitted[b]) =>
            LET cs == {x \in 1..Len(emitted[b]) :
                          input[emitted[b][x][1]].rname = c}
            IN \/ Cardinality(cs) <= 1
               \/ SumOver(cs, StartContribution(emitted[b])) < max_cov * BinSize

C7_Witness ==
    \E b \in 1..Len(emitted) :
        /\ OutsideRoi(emitted[b])
        /\ Len(emitted[b]) > max_cov
        /\ \A x \in 1..Len(emitted[b]) :
              input[emitted[b][x][1]].rname = input[emitted[b][1][1]].rname

\* ------------------------------------------------------------------------
\* C8: the depth stored for every bin equals the sum over the admitted
\* records of the part of the bin that [pos, reference_end) covers.
\* ------------------------------------------------------------------------
OverlapWithBin(a, b) ==
    Max2(0, Min2(a.aend, (b + 1) * BinSize) - Max2(a.pos, b * BinSize))

C8_DepthIsOverlapSum ==
    \A c \in Chroms : \A b \in 0..(NBins - 1) :
        gs.depth_d[c][b] =
            SumOver({x \in Admitted : input[x].rname = c},
                    [x \in 1..Len(input) |-> OverlapWithBin(input[x], b)])

\* ------------------------------------------------------------------------
\* Properties of the graph builder
\* ------------------------------------------------------------------------
EdgePair(ed) == {ed[1], ed[2]}

ScopeEntries(pe) ==
    {pe.loci[x] : x \in 1..Len(pe.loci)}
      \cup UNION {{pe.chrom_scope[c][x] : x \in 1..Len(pe.chrom_scope[c])} :
                    c \in DOMAIN pe.chrom_scope}

\* C9: every unordered pair of nodes is joined by at most one edge, and an
\* edge that has been added is never removed and never changes its weight:
\* each step only appends to the edge list.
C9_AtMostOneEdgePerPair ==
    [][/\ \A x, y \in 1..Len(G'.edges) :
             EdgePair(G'.edges[x]) = EdgePair(G'.edges[y]) => x = y
       /\ Len(G'.edges) >= Len(G.edges)
       /\ SubSeq(G'.edges, 1, Len(G.edges)) = G.edges]_vars

\* C9 case: the template flush has run and met a mate pair that link
\* discovery had already joined with a weight-2 edge, which it kept.
C9_Witness ==
    /\ gpc = "done"
    /\ paired_end
    /\ \E q \in QNames :
         \E x, y \in 1..Len(template_edges[q]) :
            /\ BitAnd(template_edges[q][x][3], 64) # 0
            /\ BitAnd(template_edges[q][y][3], 64) = 0
            /\ IsPrimary(template_edges[q][x][3])
            /\ IsPrimary(template_edges[q][y][3])
            /\ \E z \in 1..Len(G.edges) :
                  /\ EdgePair(G.edges[z]) =
                       {template_edges[q][x][2], template_edges[q][y][2]}
                  /\ G.edges[z][3] = 2

\* C10: when the paired-end scope moves to another reference sequence, no
\* entry made for the previous one survives: every entry present after the
\* step belongs to a node created in that step.
C10_ScopeEmptiedOnChromChange ==
    [][pe_scope'.local_chrom # pe_scope.local_chrom
         => \A en \in ScopeEntries(pe_scope') : en.node_name >= G.n]_vars

\* the alignment that the last call of add_to_graph was made for, if the
\* newest node is that alignment's node
LastAdded ==
    IF ge > 0 /\ Len(node_to_name) > 0
          /\ node_to_name[Len(node_to_name)][5] = ge
    THEN {GEvents[ge]} ELSE {}

ReadNodes == {n \in 0..(G.n - 1) : node_to_name[n + 1][5] # 0}

NodeChrom(n) == node_to_name[n + 1][4]

NodePos(n) == node_to_name[n + 1][7]

\* C11: after find_other_nodes has been called at position p1, no scope
\* holds an entry of a read node of the current chromosome whose own
\* position is more than max_dist behind p1.
C11_OutOfRangeEvicted ==
    \A ev \in LastAdded :
        (~mm_only /\ ev.read_enum # BREAKEND)
          => \A en \in ScopeEntries(pe_scope) :
                (en.node_name \in ReadNodes /\ NodeChrom(en.node_name) = ev.chrom)
                  => NodePos(en.node_name) >= ev.event_pos - MaxDist

\* C11 restricted to loci, the one scope that find_other_nodes prunes
C11_LociPruned ==
    \A ev \in LastAdded :
        (~mm_only /\ ev.read_enum # BREAKEND)
          => \A x \in 1..Len(pe_scope.loci) :
                LET en == pe_scope.loci[x]
                IN (en.node_name \in ReadNodes /\ NodeChrom(en.node_name) = ev.chrom)
                     => NodePos(en.node_name) >= ev.event_pos - MaxDist

\* ------------------------------------------------------------------------
\* Properties of the partitioner
\* ------------------------------------------------------------------------
\* the nodes joined to S by paths of edges of weight >= 2
RECURSIVE HeavyClosure(_, _)
HeavyClosure(edges, S) ==
    LET heavy == {x \in 1..Len(edges) : edges[x][3] >= 2}
        T == S \cup {edges[x][1] : x \in {y \in heavy : edges[y][2] \in S}}
               \cup {edges[x][2] : x \in {y \in heavy : edges[y][1] \in S}}
    IN IF T = S THEN S ELSE HeavyClosure(edges, T)

HasHeavyEdge(edges, u) ==
    \E x \in 1..Len(edges) : edges[x][3] >= 2 /\ u \in {edges[x][1], edges[x][2]}

PartitionsDone == (ppc = "partition" /\ todo = {}) \/ ppc = "counted"

\* C12: two nodes that get_partitions puts in the same partition are joined
\* by a path of edges of weight >= 2 only.
C12_SamePartitionHeavyPath ==
    \A x \in 1..Len(parts) :
        \A u, v \in parts[x] : v \in HeavyClosure(comp_edges, {u})

\* C12 case: a partition of three nodes, one of which also has an edge of
\* weight 0 or 1 to a node outside the partition.
C12_Witness ==
    /\ PartitionsDone
    /\ \E x \in 1..Len(parts) :
          /\ Cardinality(parts[x]) >= 3
          /\ \E y \in 1..Len(comp_edges) :
                /\ comp_edges[y][3] < 2
                /\ comp_edges[y][1] \in parts[x]
                /\ comp_edges[y][2] \notin parts[x]

\* C13: when get_partitions has finished, for every iteration order, the
\* partitions are pairwise disjoint, each is a whole set of nodes connected
\* by weight >= 2 edges, every node of the component with such an edge is
\* in exactly one partition and a node without one is in none.
C13_PartitionsDisjointMaximal ==
    PartitionsDone =>
        /\ \A x, y \in 1..Len(parts) : x # y => parts[x] \cap parts[y] = {}
        /\ \A x \in 1..Len(parts) :
              \A u \in parts[x] : parts[x] = HeavyClosure(comp_edges, {u})
        /\ \A u \in component :
              HasHeavyEdge(comp_edges, u) <=> \E x \in 1..Len(parts) : u \in parts[x]

\* C13 case: two partitions that an edge of weight 0 or 1 joins.
C13_Witness ==
    /\ PartitionsDone
    /\ Len(parts) >= 2
    /\ \E y \in 1..Len(comp_edges) :
          /\ comp_edges[y][3] < 2
          /\ p2i(parts, comp_edges[y][1]) >= 0
          /\ p2i(parts, comp_edges[y][2]) >= 0

NodesLinkedTo(edges, A, B) ==
    {u \in A : \E x \in 1..Len(edges) :
                  \/ (edges[x][1] = u /\ edges[x][2] \in B)
                  \/ (edges[x][2] = u /\ edges[x][1] \in B)}

SpecSupport(cigar_index, S) ==
    Cardinality({u \in S : cigar_index[u] = -1}) * 2
      + Cardinality({u \in S : cigar_index[u] # -1})

\* C17: a node with cigar_index = -1 counts 2 towards the support of a
\* component and any other node 1; proc_component rejects the component
\* exactly when the sum is below min_support.
C17_SupportEstimate ==
    ppc \notin {"idle", "start"} =>
        (ppc = "rejected" <=> SpecSupport(comp_cigar, component) < min_support)

\* ------------------------------------------------------------------------
\* Properties of the graph builder, continued
\* ------------------------------------------------------------------------
\* C15: an edge that add_to_graph makes from a ClipScoper partner has weight
\* 3.  Without sites, an edge whose newer node is a BREAKEND node, or any
\* edge of an mm_only run that is not a template edge, is such an edge.
C15_ClipEdgeWeight3 ==
    ~has_sites =>
        \A x \in 1..Len(G.edges) :
            LET u == G.edges[x][1]
            IN (u \in ReadNodes /\ G.edges[x][3] # 1
                  /\ (mm_only \/ GEvents[node_to_name[u + 1][5]].read_enum = BREAKEND))
                 => G.edges[x][3] = 3

\* ------------------------------------------------------------------------
\* Properties of get_read_length
\* ------------------------------------------------------------------------
NoneSupplied == iargs.read_len = -1 /\ iargs.insert_median = -1

Defaults == ExactParams(DefaultInsertMedian, DefaultInsertStdev)

\* C19: with neither read length nor insert median supplied, get_read_length
\* returns (300, 150) when at most 100 usable inserts were collected, and the
\* estimates computed from the inserts when 101 or more were.
C19_DefaultsBelow101 ==
    (NoneSupplied /\ ipc \in {"returned", "failed"}) =>
        IF BagLen(inserts, DOMAIN inserts) < 101
        THEN ipc = "returned" /\ insert_params = Defaults
        ELSE ipc = "returned" /\ insert_params # Defaults

\* C19 without the outcome of get_insert_params: whenever get_read_length
\* returns, it returns the defaults exactly when fewer than 101 inserts were
\* collected.
C19_ThresholdOnly ==
    (NoneSupplied /\ ipc = "returned") =>
        (insert_params = Defaults <=> BagLen(inserts, DOMAIN inserts) < 101)

\* ------------------------------------------------------------------------
\* Template edges and event positions of the nodes made from records
\* ------------------------------------------------------------------------
RegisteredNodes ==
    UNION { {template_edges[q][x][2] : x \in 1..Len(template_edges[q])} :
            q \in QNames }

\* the endpoints of the edges of weight 1
TemplateEndpoints ==
    UNION { {G.edges[x][1], G.edges[x][2]} :
            x \in {y \in 1..Len(G.edges) : G.edges[y][3] = 1} }

\* C16: only nodes whose final read_enum is DISCORDANT or SPLIT are
\* registered in TemplateEdges, and a node handed to add_to_graph as
\* DELETION, INSERTION or BREAKEND (a SPLIT that process_alignment turned
\* into a BREAKEND included) is neither registered nor an endpoint of an
\* edge of weight 1.
C16_TemplateEdgesBelow2 ==
    /\ \A n \in RegisteredNodes :
          \E x \in 1..Len(node_enum) :
             node_enum[x].node = n /\ node_enum[x].final < 2
    /\ \A x \in 1..Len(node_enum) :
          node_enum[x].final >= 2 =>
             /\ node_enum[x].node \notin RegisteredNodes
             /\ node_enum[x].node \notin TemplateEndpoints

\* the flush has added a template edge while the graph holds a SPLIT that
\* became a BREAKEND and a within-read deletion
C16_Witness ==
    /\ gpc = "done"
    /\ TemplateEndpoints # {}
    /\ \E x \in 1..Len(node_enum) :
          node_enum[x].called = SPLIT /\ node_enum[x].final = BREAKEND
    /\ \E x \in 1..Len(node_enum) : node_enum[x].final = DELETION

RecordNodes == {n \in 0..(G.n - 1) : node_to_name[n + 1][5] # 0}

RecordOf(n) == Records[node_to_name[n + 1][5]]

InsideRecord(n) ==
    /\ RecordOf(n).pos <= node_to_name[n + 1][7]
    /\ node_to_name[n + 1][7] <= reference_end(RecordOf(n))

\* C18: every node made from a record with cigar_index # -1 has its
\* event_pos inside [pos, reference_end] of that record.
C18_EventPosInsideRecord ==
    \A n \in RecordNodes : node_to_name[n + 1][6] # -1 => InsideRecord(n)

\* the same for the records whose CIGAR has no padding operation
C18_InsideWithoutPadding ==
    \A n \in RecordNodes :
       (node_to_name[n + 1][6] # -1
        /\ \A x \in 1..Len(RecordOf(n).cigar) : RecordOf(n).cigar[x][1] # 6)
          => InsideRecord(n)

\* ------------------------------------------------------------------------
\* The read buffer
\* ------------------------------------------------------------------------
\* C20: the read buffer never holds more than buffer_size records.
C20_BufferWithinSize == Cardinality(read_buffer) <= buff_size

\* C20, the second half: BufferError is raised only without random access
C20_RandomAccessNeverRaises == bpc = "overflow" => no_tell

\* C20, on stdin: adding to a full buffer raises BufferError
C20_StdinFullRaises ==
    [][(no_tell /\ Cardinality(read_buffer) >= buff_size
        /\ (first' # first \/ read_buffer' # read_buffer \/ bpc' # bpc))
       => bpc' = "overflow"]_vars

\* ------------------------------------------------------------------------
\* The end of iter_genome
\* ------------------------------------------------------------------------
\* C21: iter_genome ends in the fatal "No reads found" outcome exactly when
\* the input stream is empty; a stream with records ends normally.
C21_NoReadsIffEmptyStream ==
    pc \in {"noreads", "finished"} => (pc = "noreads" <=> input = <<>>)

\* C21 as the code has it: the fatal outcome is taken exactly when no batch
\* was yielded
C21_NoReadsIffNothingEmitted ==
    pc \in {"noreads", "finished"} => (pc = "noreads" <=> emitted = <<>>)

\* C21, the progress half: a whole-genome scan that was handed a record
\* passing the filter does not end in the fatal outcome
C21_AdmittedThenNormalEnd ==
    (pc = "noreads" /\ WholeGenome) => Admitted = {}

\* ------------------------------------------------------------------------
\* The batches of the scanner
\* ------------------------------------------------------------------------
BatchRecord(b, x) == input[emitted[b][x][1]]

\* C22: every emitted batch holds records of one chromosome and one 100-bp
\* bin; the first record of a new chromosome starts a new batch also when
\* its bin index is that of the last record of the previous chromosome.
C22_BatchSingleChromBin ==
    \A b \in 1..Len(emitted) :
        \A x, y \in 1..Len(emitted[b]) :
            /\ BatchRecord(b, x).rname = BatchRecord(b, y).rname
            /\ BatchRecord(b, x).pos \div BinSize
                 = BatchRecord(b, y).pos \div BinSize

\* C22 without the chromosome: the records of a batch share the bin index
C22_BatchSingleBinIndex ==
    \A b \in 1..Len(emitted) :
        \A x, y \in 1..Len(emitted[b]) :
            BatchRecord(b, x).pos \div BinSize
              = BatchRecord(b, y).pos \div BinSize

\* the record handed to _add_to_bin_buffer last
Incoming == input[fed[Len(fed)]]

\* a step in which an admitted record opens a new bin while the current
\* bin holds records
OpensNewBin ==
    /\ Len(fed') = Len(fed) + 1
    /\ ~Filtered(Incoming')
    /\ Incoming'.pos \div BinSize # gs.current_pos
    /\ Len(gs.current_bin) > 0

\* the step stages (or yields) the bin that was current before it
StagesPrevious ==
    /\ Len(emitted') + Len(gs'.staged_reads)
         = Len(emitted) + Len(gs.staged_reads) + 1
    /\ (emitted' \o gs'.staged_reads)[Len(emitted') + Len(gs'.staged_reads)]
         = gs.current_bin

\* the depth of the previous bin is at the cap and none of its records lies
\* in a region of interest
PreviousAtCap ==
    /\ gs.depth_d[input[gs.current_bin[1][1]].rname][gs.current_pos]
         >= max_cov * BinSize
    /\ \A x \in 1..Len(gs.current_bin) :
          ~InRoi(input[gs.current_bin[x][1]].rname,
                 input[gs.current_bin[x][1]].pos)

\* C23: when a record opens a new bin, the previous non-empty bin is staged
\* unless its own depth is at the cap and it is outside every region of
\* interest, whatever the coverage and region membership at the incoming
\* record's bin.
C23_StagedByOwnDepth ==
    [][OpensNewBin => (StagesPrevious <=> ~PreviousAtCap)]_vars

\* C23 as the code has it: the previous bin is staged exactly when the
\* post-update depth of the incoming record's start bin is below the cap or
\* the incoming record lies in a region of interest
C23_StagedByIncomingDepth ==
    [][OpensNewBin =>
         (StagesPrevious <=>
            \/ gs'.depth_d[Incoming'.rname][AddCoverageBin(Incoming'.pos)]
                 < max_cov * BinSize
            \/ InRoi(Incoming'.rname, Incoming'.pos))]_vars

\* C24: every record that passes the filter and lies inside a region of
\* interest is emitted in a batch by the end of the scan, whatever the
\* coverage and whatever records outside the region share its bin.
C24_RoiRecordsEmitted ==
    pc = "done" =>
        \A x \in Admitted :
            InRoi(input[x].rname, input[x].pos) => x \in EmittedIds

\* C24, the step that takes the record in: an admitted record inside a
\* region of interest always becomes the last record of the current bin
C24_RoiRecordEntersBin ==
    [][(Len(fed') = Len(fed) + 1 /\ ~Filtered(Incoming')
        /\ InRoi(Incoming'.rname, Incoming'.pos))
       => /\ Len(gs'.current_bin) > 0
          /\ gs'.current_bin[Len(gs'.current_bin)][1] = fed'[Len(fed')]]_vars

\* C24, the same-bin case: the over-coverage rule discards no record that
\* lies inside a region of interest
C24_RoiRecordNotDiscarded ==
    \A x \in overcov : ~InRoi(input[x].rname, input[x].pos)

\* ------------------------------------------------------------------------
\* add_coverage, as applied to each admitted record
\* ------------------------------------------------------------------------
\* a step that hands an admitted record to add_coverage
AddsCoverage == Len(fed') = Len(fed) + 1 /\ ~Filtered(Incoming')

\* what the step added to bin b of chromosome c, in hundredths
DepthAdded(c, b) == gs'.depth_d[c][b] - gs.depth_d[c][b]

CeilBin(x) == (x + BinSize - 1) \div BinSize

\* C25: add_coverage(start, end) adds ceil(start/100)*100 - start to bin
\* floor(start/100), end - floor(end/100)*100 to bin floor(end/100), 100 to
\* every bin strictly between them, and changes no other bin.
C25_AddsSpecifiedFractions ==
    [][AddsCoverage =>
         \A c \in Chroms : \A b \in 0..(NBins - 1) :
            DepthAdded(c, b) =
              IF c # Incoming'.rname THEN 0
              ELSE (IF b = Incoming'.pos \div BinSize
                    THEN CeilBin(Incoming'.pos) * BinSize - Incoming'.pos
                    ELSE 0)
                   + (IF b = Incoming'.aend \div BinSize
                      THEN Incoming'.aend
                             - (Incoming'.aend \div BinSize) * BinSize
                      ELSE 0)
                   + (IF b > Incoming'.pos \div BinSize
                         /\ b < Incoming'.aend \div BinSize
                      THEN BinSize ELSE 0)]_vars

\* C25 as the code has it: the start bin gets (floor(start/100) + 1)*100 -
\* start, and the end bin its fraction only when it is another bin
C25_AddsCodedFractions ==
    [][AddsCoverage =>
         \A c \in Chroms : \A b \in 0..(NBins - 1) :
            DepthAdded(c, b) =
              IF c # Incoming'.rname THEN 0
              ELSE (IF b = Incoming'.pos \div BinSize
                    THEN (Incoming'.pos \div BinSize + 1) * BinSize
                           - Incoming'.pos
                    ELSE 0)
                   + (IF b = Incoming'.aend \div BinSize
                         /\ b # Incoming'.pos \div BinSize
                      THEN Incoming'.aend
                             - (Incoming'.aend \div BinSize) * BinSize
                      ELSE 0)
                   + (IF b > Incoming'.pos \div BinSize
                         /\ b < Incoming'.aend \div BinSize
                      THEN BinSize ELSE 0)]_vars

\* C25 for records that start off a bin boundary and end in another bin
C25_SpecifiedOffBoundary ==
    [][(AddsCoverage /\ Incoming'.pos % BinSize # 0
        /\ Incoming'.pos \div BinSize # Incoming'.aend \div BinSize) =>
         \A b \in 0..(NBins - 1) :
            DepthAdded(Incoming'.rname, b) =
              (IF b = Incoming'.pos \div BinSize
               THEN CeilBin(Incoming'.pos) * BinSize - Incoming'.pos ELSE 0)
              + (IF b = Incoming'.aend \div BinSize
                 THEN Incoming'.aend - (Incoming'.aend \div BinSize) * BinSize
                 ELSE 0)
              + (IF b > Incoming'.pos \div BinSize
                    /\ b < Incoming'.aend \div BinSize
                 THEN BinSize ELSE 0)]_vars

\* ------------------------------------------------------------------------
\* The intervals of the region pass
\* ------------------------------------------------------------------------
IntervalSet == {intervals_to_check[x] : x \in 1..Len(intervals_to_check)}

\* the informative records fetched from the user regions
RegionRecords ==
    {x \in 1..Len(input) :
        /\ BitAnd(input[x].flag, InformativeMask) = 0
        /\ \E r \in 1..Len(include_regions) :
              \E y \in 1..Len(Fetch(include_regions[r][1], include_regions[r][2],
                                    include_regions[r][3])) :
                 Fetch(include_regions[r][1], include_regions[r][2],
                       include_regions[r][3])[y] = x}

PaddedWindow(c, p) == <<c, Max2(0, p - Pad), p + Pad>>

\* C26: in region-restricted mode the intervals to scan hold, for every
\* informative record fetched from a user region, the window
\* [max(0, pnext - 1000), pnext + 1000] on the mate chromosome and, for every
\* SA entry at p, the window [max(0, p - 1000), p + 1000] on its chromosome.
C26_WindowsPadBothSides ==
    pc = "fetch" =>
        \A x \in RegionRecords :
            /\ PaddedWindow(input[x].rnext, input[x].pnext) \in IntervalSet
            /\ \A s \in 1..Len(input[x].sa) :
                  PaddedWindow(input[x].sa[s][1], input[x].sa[s][2])
                    \in IntervalSet

\* C26, the mate half
C26_MateWindowPadded ==
    pc = "fetch" =>
        \A x \in RegionRecords :
            PaddedWindow(input[x].rnext, input[x].pnext) \in IntervalSet

\* C26 as the code has it for SA entries: the window ends at p
C26_SaWindowEndsAtEntry ==
    pc = "fetch" =>
        \A x \in RegionRecords :
            \A s \in 1..Len(input[x].sa) :
               <<input[x].sa[s][1], Max2(0, input[x].sa[s][2] - Pad),
                 input[x].sa[s][2]>> \in IntervalSet

\* ------------------------------------------------------------------------
\* find_other_nodes (SpecFind)
\* ------------------------------------------------------------------------
\* the map find_other_nodes walked in the call that has just returned
ForwardScope(c) == fscope.chrom_scope[ScopeSlot(c.q.chrom2)]

\* the nodes held by a vector
NodesOf(found) == { found[x] : x \in DOMAIN found }

\* node n has an entry in the walked map within d of the query's pos2
HasEntryWithin(c, n, d) ==
    \E i \in DOMAIN ForwardScope(c) :
        /\ ForwardScope(c)[i].node_name = n
        /\ Abs(ForwardScope(c)[i].key - c.q.pos2) < d

\* C27: find_other_nodes returns the exact-bucket partners, all of them within
\* 35 bp of the query's pos2, whenever one was found, and the distance-bucket
\* partners, all of them approved by span_position_distance, only when none
\* was; the result is one bucket or the other, never both, and never holds
\* the querying node.
C27_ExactElseDistance ==
    \A i \in DOMAIN fcall :
        /\ fcall[i].found_exact # <<>> =>
              /\ fcall[i].found = fcall[i].found_exact
              /\ \A n \in NodesOf(fcall[i].found) :
                    HasEntryWithin(fcall[i], n, ExactDist)
        /\ fcall[i].found_exact = <<>> =>
              /\ fcall[i].found = fcall[i].found2
              /\ NodesOf(fcall[i].found) \subseteq fcall[i].q.spd
        /\ fcall[i].q.node_name \notin NodesOf(fcall[i].found)

\* C27 case: one call found partners for both buckets
C27_BothBucketsFilled ==
    /\ fcall # <<>>
    /\ fcall[1].found_exact # <<>>
    /\ fcall[1].found2 # <<>>
    /\ NodesOf(fcall[1].found2) \ NodesOf(fcall[1].found_exact) # {}

\* entry v of the walked map is within 35 bp of the query's pos2 and, when
\* both CIGAR lengths are known, the two lengths are within span_distance 0.8
PassesSpanGate(q, v) ==
    /\ Abs(v.key - q.pos2) < ExactDist
    /\ (q.length_from_cigar > 0 /\ v.length_from_cigar > 0) =>
           SpanClose(q.length_from_cigar, v.length_from_cigar)

\* every node of the vector has an entry that passes the span gate, and no
\* node is in the vector twice
GatedOnce(c) ==
    /\ c.found_exact # <<>> =>
          \A n \in NodesOf(c.found) :
             \E i \in DOMAIN ForwardScope(c) :
                /\ ForwardScope(c)[i].node_name = n
                /\ PassesSpanGate(c.q, ForwardScope(c)[i])
    /\ \A x, y \in DOMAIN c.found : x # y => c.found[x] # c.found[y]

\* C28: a node is returned as an exact-bucket partner only if it lies within
\* 35 bp of pos2 and, with both CIGAR lengths known, span_distance < 0.8, in
\* whichever walk found it, and no node is returned more than once.
C28_SpanGateAndNoDuplicates ==
    \A i \in DOMAIN fcall : GatedOnce(fcall[i])

\* C28, forward walk alone: when no entry lies before lower_bound(pos2) the
\* backward walk has nothing to visit, and the gate holds without duplicates.
C28_ForwardWalkGated ==
    \A i \in DOMAIN fcall :
        LowerBound(ForwardScope(fcall[i]), fcall[i].q.pos2) = 1 =>
            GatedOnce(fcall[i])

\* C28, the gate alone: every node of the exact bucket has an entry that
\* passes the span gate. The backward walk breaks it: it pushes the neighbour
\* once more after the gate, whatever the gate said.
C28_ExactPassesSpanGate ==
    \A i \in DOMAIN fcall :
        \A n \in NodesOf(fcall[i].found_exact) :
            \E x \in DOMAIN ForwardScope(fcall[i]) :
                /\ ForwardScope(fcall[i])[x].node_name = n
                /\ PassesSpanGate(fcall[i].q, ForwardScope(fcall[i])[x])

\* C28, duplicates alone: the exact bucket never holds a node twice. The
\* backward walk breaks it for every neighbour its gate accepts.
C28_ExactNeverTwice ==
    \A i \in DOMAIN fcall :
        \A x, y \in DOMAIN fcall[i].found_exact :
            x # y => fcall[i].found_exact[x] # fcall[i].found_exact[y]

\* entry v would go to the exact bucket of query q if the walk visited it
Compatible(q, v) ==
    /\ ~TypeGate(q.read_enum, v.read_enum)
    /\ v.node_name # q.node_name
    /\ \/ q.current_chrom # q.chrom2
       \/ is_reciprocal_overlapping(q.current_pos, q.pos2, v.key, v.pos2)
    /\ Abs(v.pos2 - q.current_pos) < MaxDist
    /\ PassesSpanGate(q, v)

\* no entry of fs from index a to index b is further than max_dist from pos2
NoStopBetween(q, fs, a, b) ==
    \A m \in a..b : Abs(fs[m].key - q.pos2) < MaxDist

\* the forward walk starts on an entry the type gate rejects, and a compatible
\* entry among the five after it is returned
ForwardMovesOn(c, fs, start) ==
    (start <= Len(fs) /\ TypeGate(c.q.read_enum, fs[start].read_enum)) =>
        \A i \in (start + 1)..Min2(start + WalkSteps - 1, Len(fs)) :
            (Compatible(c.q, fs[i]) /\ NoStopBetween(c.q, fs, start, i - 1)) =>
                fs[i].node_name \in NodesOf(c.found)

\* the same for the backward walk, which runs when the forward walk found no
\* exact partner and which also asks for the entry's chromosome
BackwardMovesOn(c, fs, start) ==
    (start > 1 /\ TypeGate(c.q.read_enum, fs[start - 1].read_enum)) =>
        \A i \in Max2(1, start - WalkSteps)..(start - 2) :
            (/\ Compatible(c.q, fs[i])
             /\ fs[i].chrom2 = c.q.chrom2
             /\ NoStopBetween(c.q, fs, i + 1, start - 1)) =>
                fs[i].node_name \in NodesOf(c.found)

\* C29: an entry rejected by the type gate (DELETION against INSERTION) is
\* skipped and the walk goes on to the next entry: a compatible entry among
\* the next ones within the 6 steps is still returned, forward and backward.
C29_TypeGateSkipMovesOn ==
    \A i \in DOMAIN fcall :
        /\ ForwardMovesOn(fcall[i], ForwardScope(fcall[i]),
                          LowerBound(ForwardScope(fcall[i]), fcall[i].q.pos2))
        /\ BackwardMovesOn(fcall[i], ForwardScope(fcall[i]),
                           LowerBound(ForwardScope(fcall[i]), fcall[i].q.pos2))

\* C29, forward alone
C29_ForwardSkipMovesOn ==
    \A i \in DOMAIN fcall :
        ForwardMovesOn(fcall[i], ForwardScope(fcall[i]),
                       LowerBound(ForwardScope(fcall[i]), fcall[i].q.pos2))

\* C29, backward alone
C29_BackwardSkipMovesOn ==
    \A i \in DOMAIN fcall :
        BackwardMovesOn(fcall[i], ForwardScope(fcall[i]),
                        LowerBound(ForwardScope(fcall[i]), fcall[i].q.pos2))

\* the walk that starts on an entry the type gate rejects visits nothing
GateEndsWalk(c, fs, start) ==
    (/\ start <= Len(fs) => TypeGate(c.q.read_enum, fs[start].read_enum)
     /\ start > 1 => TypeGate(c.q.read_enum, fs[start - 1].read_enum)) =>
        c.found = <<>>

\* C29 as coded: the rejected entry is looked at again until the 6 steps are
\* used up, so a call whose two walks start on rejected entries returns nothing.
C29_TypeGateEndsWalk ==
    \A i \in DOMAIN fcall :
        GateEndsWalk(fcall[i], ForwardScope(fcall[i]),
                     LowerBound(ForwardScope(fcall[i]), fcall[i].q.pos2))

\* C29_TypeGateEndsWalk is met by a call that had entries to walk
C29_GateMet ==
    /\ fcall # <<>>
    /\ ForwardScope(fcall[1]) # <<>>
    /\ fscope.loci # <<>>
    /\ LowerBound(ForwardScope(fcall[1]), fcall[1].q.pos2) <= Len(ForwardScope(fcall[1]))
    /\ TypeGate(fcall[1].q.read_enum,
                ForwardScope(fcall[1])[LowerBound(ForwardScope(fcall[1]), fcall[1].q.pos2)].read_enum)

\* node n has an entry within max_dist of the query on both sides
WithinMaxDist(c, n) ==
    \E i \in DOMAIN ForwardScope(c) :
        /\ ForwardScope(c)[i].node_name = n
        /\ Abs(ForwardScope(c)[i].key - c.q.pos2) < MaxDist
        /\ Abs(ForwardScope(c)[i].pos2 - c.q.current_pos) < MaxDist

\* C30: every node find_other_nodes returns has |v.p1 - p2| < max_dist and
\* |v.p2 - p1| < max_dist, whatever span_position_distance answers.
C30_ReturnedWithinMaxDist ==
    \A i \in DOMAIN fcall :
        \A n \in NodesOf(fcall[i].found) : WithinMaxDist(fcall[i], n)

\* C30, exact bucket alone: its pushes are all inside the max_dist test
C30_ExactWithinMaxDist ==
    \A i \in DOMAIN fcall :
        \A n \in NodesOf(fcall[i].found_exact) : WithinMaxDist(fcall[i], n)

\* C30, with span_position_distance answering false for every entry nothing
\* outside max_dist is returned
C30_WithinMaxDistUnlessApproved ==
    \A i \in DOMAIN fcall :
        fcall[i].q.spd = {} =>
            \A n \in NodesOf(fcall[i].found) : WithinMaxDist(fcall[i], n)

\* entry v is an exact partner of the inter-chromosomal query q: CIGAR lengths
\* unknown, v's key within 35 bp of pos2, v's own position within max_dist
ExactPartner(q, v) ==
    /\ q.current_chrom # q.chrom2
    /\ q.length_from_cigar = 0
    /\ v.length_from_cigar = 0
    /\ v.node_name # q.node_name
    /\ Abs(v.key - q.pos2) < ExactDist
    /\ Abs(v.pos2 - q.current_pos) < MaxDist

\* the entry at lower_bound(pos2), the first of the forward walk
ForwardFirstExact(c, fs, start) ==
    (start <= Len(fs) /\ ExactPartner(c.q, fs[start])) =>
        fs[start].node_name \in NodesOf(c.found_exact)

\* the entry before lower_bound(pos2), the first of the backward walk, when
\* no entry at or after pos2 is an exact partner
BackwardFirstExact(c, fs, start) ==
    (/\ start > 1
     /\ ExactPartner(c.q, fs[start - 1])
     /\ \A m \in start..Len(fs) : ~ExactPartner(c.q, fs[m])) =>
        fs[start - 1].node_name \in NodesOf(c.found_exact)

\* C31: for an inter-chromosomal pair with unknown CIGAR lengths an earlier
\* node whose partner position is within 35 bp of pos2 (and whose own position
\* is within max_dist) comes back through the exact bucket, whether its
\* partner position is at or after pos2 or before it.
C31_ExactOnBothSides ==
    \A i \in DOMAIN fcall :
        /\ ForwardFirstExact(fcall[i], ForwardScope(fcall[i]),
                             LowerBound(ForwardScope(fcall[i]), fcall[i].q.pos2))
        /\ BackwardFirstExact(fcall[i], ForwardScope(fcall[i]),
                              LowerBound(ForwardScope(fcall[i]), fcall[i].q.pos2))

\* C31, partner position at or after pos2
C31_ExactAtOrAfter ==
    \A i \in DOMAIN fcall :
        ForwardFirstExact(fcall[i], ForwardScope(fcall[i]),
                          LowerBound(ForwardScope(fcall[i]), fcall[i].q.pos2))

\* C31_ExactAtOrAfter is met: a forward exact partner of an inter-chromosomal
\* query
C31_ForwardMet ==
    /\ fcall # <<>>
    /\ fscope.loci # <<>>
    /\ LowerBound(ForwardScope(fcall[1]), fcall[1].q.pos2) <= Len(ForwardScope(fcall[1]))
    /\ ExactPartner(fcall[1].q,
                    ForwardScope(fcall[1])[LowerBound(ForwardScope(fcall[1]), fcall[1].q.pos2)])

\* C31 as coded: the backward walk compares the entry's chromosome, which is
\* the chromosome the earlier node was read on, with the query's chrom2, so
\* for an inter-chromosomal query every exact partner has its key at or
\* after pos2.
C31_InterChromExactOnlyForward ==
    \A i \in DOMAIN fcall :
        fcall[i].q.current_chrom # fcall[i].q.chrom2 =>
            \A n \in NodesOf(fcall[i].found_exact) :
                \E x \in DOMAIN ForwardScope(fcall[i]) :
                    /\ ForwardScope(fcall[i])[x].node_name = n
                    /\ ForwardScope(fcall[i])[x].key >= fcall[i].q.pos2

\* ------------------------------------------------------------------------
\* ClipScoper (SpecClip)
\* ------------------------------------------------------------------------
\* the minimizers that have a non-empty posting list in one orientation
ActiveMinimizers(sd) == { m \in MinUniverse : sd.at[m] # {} }

\* C33: the active-minimizer counter of each orientation equals the number of
\* minimizers with a non-empty posting list there, and is never negative.
C33_CounterMatchesPostings ==
    \A x \in {1, 2} :
        /\ clip_scope.side[x].n = Cardinality(ActiveMinimizers(clip_scope.side[x]))
        /\ clip_scope.side[x].n >= 0

\* C33, sign alone
C33_CounterNeverNegative ==
    \A x \in {1, 2} : clip_scope.side[x].n >= 0

\* C33 as coded: the counter never exceeds the number of active minimizers
C33_CounterAtMostPostings ==
    \A x \in {1, 2} :
        clip_scope.side[x].n <= Cardinality(ActiveMinimizers(clip_scope.side[x]))

\* the breakend node x was made from
EventOf(x) == ClipEvents[node_to_name[x + 1][5]]

\* nodes u and v are breakends of one chromosome with left soft clips whose
\* sequences share all their minimizers, d bp apart, and v is the second node
\* of the graph
TwinClips(u, v, d) ==
    /\ G.n = 2
    /\ u = 0
    /\ v = 1
    /\ EventOf(u).chrom = EventOf(v).chrom
    /\ EventOf(u).clipL # {}
    /\ EventOf(u).clipL = EventOf(v).clipL
    /\ Abs(EventOf(u).event_pos - EventOf(v).event_pos) = d

\* C32: two breakend reads of one chromosome with left soft clips of at least
\* clip_length bases, 10 bp apart, whose clips share all their minimizers, are
\* reported as partners by ClipScoper.update and joined by an edge.
C32_TenApartJoined ==
    \A u, v \in 0..(G.n - 1) : TwinClips(u, v, 10) => hasEdge(G, u, v)

\* C32 as coded: the posting-list scan takes a partner only within 7 bp, and
\* two such reads closer than that are joined
C32_CloserThanSevenJoined ==
    \A u, v \in 0..(G.n - 1) :
        \A d \in 0..(MinimizerWindow - 1) : TwinClips(u, v, d) => hasEdge(G, u, v)

\* C32_CloserThanSevenJoined is met: two reads 4 bp apart, joined
C32_CloseMet ==
    /\ TwinClips(0, 1, 4)
    /\ hasEdge(G, 0, 1)

\* C32 as coded, from 7 bp on: never joined
C32_SevenOrMoreApart ==
    \A u, v \in 0..(G.n - 1) :
        \A d \in MinimizerWindow..MinimizerDist : TwinClips(u, v, d) => ~hasEdge(G, u, v)

\* the partners ClipScoper.update reported for node v: cluster_clipped adds
\* one edge from v for each of them
ClipPartners(v) == { G.edges[x][2] : x \in { y \in 1..Len(G.edges) : G.edges[y][1] = v } }

\* C34: one call of ClipScoper.update reports at most 5 partner nodes, also
\* for a record with a left and a right soft clip of at least clip_length.
C34_AtMostFivePartners ==
    \A v \in 0..(G.n - 1) : Cardinality(ClipPartners(v)) <= MaxClipPartners

\* C34, one clip: a record with a soft clip on one side only gets at most 5
C34_OneClipAtMostFive ==
    \A v \in 0..(G.n - 1) :
        (EventOf(v).clipL = {} \/ EventOf(v).clipR = {}) =>
            Cardinality(ClipPartners(v)) <= MaxClipPartners

\* C34, threshold 2 and more: the first neighbour a side looks at never has
\* support enough (1/2 + 1 < 2), the cap is tested before the second one, and
\* a two-sided record gets at most 5 as well
C34_FromThreshTwoAtMostFive ==
    minimizer_support_thresh >= 2 =>
        \A v \in 0..(G.n - 1) : Cardinality(ClipPartners(v)) <= MaxClipPartners

\* C34_FromThreshTwoAtMostFive is met: a record that reached the cap
C34_CapMet ==
    /\ minimizer_support_thresh >= 2
    /\ \E v \in 0..(G.n - 1) : Cardinality(ClipPartners(v)) = MaxClipPartners

\* C34, two clips: the set is shared by the two sides and the cap is tested
\* after the insertion, so the second side adds one more at most
C34_TwoClipsAtMostSix ==
    \A v \in 0..(G.n - 1) : Cardinality(ClipPartners(v)) <= MaxClipPartners + 1

\* ------------------------------------------------------------------------
\* The template flush
\* ------------------------------------------------------------------------
\* the entries TemplateEdges holds for read 1 (first = TRUE) or read 2 of
\* template q, each <<query_start, node, flag>>
ReadEntries(q, isFirst) ==
    { template_edges[q][x] :
        x \in { y \in DOMAIN template_edges[q] :
                  (BitAnd(template_edges[q][y][3], 64) # 0) = isFirst } }

\* b follows a directly when the entries of S are ordered by query_start
NextOnQuery(S, a, b) ==
    /\ TripleLess(a, b)
    /\ ~\E c \in S : TripleLess(a, c) /\ TripleLess(c, b)

PrimaryEntries(S) == { a \in S : IsPrimary(a[3]) }

\* the nodes registered under template q
TemplateNodes(q) == { template_edges[q][x][2] : x \in DOMAIN template_edges[q] }

\* C35: after the final flush of a paired-end run, for every template:
\* within read 1 and within read 2 the alignments that follow each other in
\* query_start order are adjacent; if both reads have a primary alignment
\* node, a primary node of read 1 and one of read 2 are adjacent; and every
\* weight-1 edge joins two nodes of one template.
C35_FlushJoinsTemplates ==
    (gpc = "done" /\ paired_end) =>
        /\ \A q \in QNames : \A isFirst \in BOOLEAN :
              \A a, b \in ReadEntries(q, isFirst) :
                  NextOnQuery(ReadEntries(q, isFirst), a, b) =>
                      hasEdge(G, a[2], b[2])
        /\ \A q \in QNames :
              (PrimaryEntries(ReadEntries(q, TRUE)) # {}
               /\ PrimaryEntries(ReadEntries(q, FALSE)) # {}) =>
                  \E a \in PrimaryEntries(ReadEntries(q, TRUE)) :
                      \E b \in PrimaryEntries(ReadEntries(q, FALSE)) :
                          hasEdge(G, a[2], b[2])
        /\ \A x \in 1..Len(G.edges) :
              G.edges[x][3] = 1 =>
                  \E q \in QNames :
                      {G.edges[x][1], G.edges[x][2]} \subseteq TemplateNodes(q)

\* C35 case: the flush has run on a template with three alignments of one
\* read that were registered out of query order
C35_SortedTemplateFlushed ==
    /\ gpc = "done"
    /\ paired_end
    /\ \E q \in QNames :
          /\ Len(template_edges[q]) >= 3
          /\ \E x \in 1..(Len(template_edges[q]) - 1) :
                TripleLess(template_edges[q][x + 1], template_edges[q][x])
          /\ Cardinality(ReadEntries(q, TRUE)) >= 3

\* C35 case: the flush has joined the primary alignments of the two reads
C35_PrimariesJoined ==
    /\ gpc = "done"
    /\ paired_end
    /\ \E q \in QNames :
          /\ PrimaryEntries(ReadEntries(q, TRUE)) # {}
          /\ PrimaryEntries(ReadEntries(q, FALSE)) # {}

\* ------------------------------------------------------------------------
\* SiteAdder
\* ------------------------------------------------------------------------
\* the sites that were given a node
RegisteredSites == { s \in SiteIds : site_adder.sites_index_r[s] # -1 }

\* C36: add_any_sites completes without error for every site queue and read
\* position, also when every remaining site of the chromosome is behind the
\* read and the queue becomes empty.
C36_AddAnySitesCompletes == gpc # "crashed"

\* C36, the registration: a site is given a node once and leaves the queue
\* with it, so count is the number of registered sites and the site nodes are
\* all different
C36_NoSiteRegisteredTwice ==
    /\ site_adder.count = Cardinality(RegisteredSites)
    /\ \A s, t \in RegisteredSites :
          s # t => site_adder.sites_index_r[s] # site_adder.sites_index_r[t]

\* C36_NoSiteRegisteredTwice is met: two sites registered
C36_TwoRegistered == Cardinality(RegisteredSites) >= 2

\* C36, the drain when a site stays in the queue: no error
C36_DrainLeavingSitesCompletes ==
    [][(gpc = "build" /\ gpc' = "crashed") =>
          \E c \in Chroms : /\ site_adder.sites_queue[c] # <<>>
                            /\ site_adder'.sites_queue[c] = <<>>]_vars

\* the alignment the last node was made from, when it was made from one
LastEvent == GEvents[ge]

LastNodeFromEvent ==
    /\ has_sites
    /\ ge > 0
    /\ G.n > 0
    /\ node_to_name[G.n][5] = ge
    /\ LastEvent.read_enum \in {SPLIT, BREAKEND}

\* the sites in scope
ScopeSites == { site_adder.scope[x] : x \in 1..Len(site_adder.scope) }

\* p is the site of chromosome chrom in scope that is nearest to pos, and it
\* is within 50 bp
NearestWithin(p, chrom, pos) ==
    /\ p \in ScopeSites
    /\ p.chrom = chrom
    /\ Abs(p.start - pos) <= SiteClusterDist
    /\ \A o \in ScopeSites :
          (o.chrom = chrom /\ o # p) => Abs(p.start - pos) < Abs(o.start - pos)

\* the site nodes add_to_graph linked the last node to
LinkedSites ==
    { s \in SiteIds :
        \E x \in 1..Len(G.edges) :
            /\ G.edges[x][1] = G.n - 1
            /\ G.edges[x][2] = site_adder.sites_index_r[s]
            /\ G.edges[x][3] = 0 }

SiteOf(s) == CHOOSE p \in ScopeSites : p.id = s

\* the last node is joined to the node of site p
JoinedToSite(p) == hasEdge(G, G.n - 1, site_adder.sites_index_r[p.id])

\* site s lies within 50 bp of one of the two breakpoints of the last node, on
\* that breakpoint's chromosome
NearBreakpoint(s) ==
    \/ /\ SiteOf(s).chrom = LastEvent.chrom
       /\ Abs(SiteOf(s).start - LastEvent.event_pos) <= SiteClusterDist
    \/ /\ SiteOf(s).chrom = LastEvent.chrom2
       /\ Abs(SiteOf(s).start - LastEvent.pos2) <= SiteClusterDist

\* C37: find_nearest_site(chrom, pos) returns the in-scope site of chromosome
\* chrom nearest to pos when it is within 50 bp, left or right of pos: the
\* node add_to_graph makes for a SPLIT or BREAKEND is joined to that site for
\* its first breakpoint; and it never returns a site of another chromosome:
\* every site the node is linked to lies within 50 bp of one of its two
\* breakpoints on that breakpoint's chromosome.
C37_NearestSiteOfChrom ==
    LastNodeFromEvent =>
        /\ \A p \in ScopeSites :
              NearestWithin(p, LastEvent.chrom, LastEvent.event_pos) =>
                  JoinedToSite(p)
        /\ \A s \in LinkedSites : NearBreakpoint(s)

\* C37, a nearest site left of pos
C37_NearestLeftJoined ==
    LastNodeFromEvent =>
        \A p \in ScopeSites :
            (NearestWithin(p, LastEvent.chrom, LastEvent.event_pos)
             /\ p.start < LastEvent.event_pos) => JoinedToSite(p)

\* C37, a nearest site at pos or right of it: bisect_left lands on it
C37_NearestRightJoined ==
    LastNodeFromEvent =>
        \A p \in ScopeSites :
            (NearestWithin(p, LastEvent.chrom, LastEvent.event_pos)
             /\ p.start >= LastEvent.event_pos) => JoinedToSite(p)

\* C37_NearestRightJoined is met
C37_RightMet ==
    /\ LastNodeFromEvent
    /\ \E p \in ScopeSites :
          /\ NearestWithin(p, LastEvent.chrom, LastEvent.event_pos)
          /\ p.start >= LastEvent.event_pos

\* C37, the chromosome asked for
C37_LinkedOnAskedChrom ==
    LastNodeFromEvent => \A s \in LinkedSites : NearBreakpoint(s)

\* C37 as coded: a linked site is within 50 bp of one of the two positions,
\* on whatever chromosome
C37_LinkedWithinFifty ==
    LastNodeFromEvent =>
        \A s \in LinkedSites :
            \/ Abs(SiteOf(s).start - LastEvent.event_pos) <= SiteClusterDist
            \/ Abs(SiteOf(s).start - LastEvent.pos2) <= SiteClusterDist

\* ------------------------------------------------------------------------
\* C38: break_large_component's jobs.
PairJobs == {x \in 1..Len(jobs) : jobs[x].pair[1] # jobs[x].pair[2]}

PartArray(u) == SetToSeq(parts[u + 1])

NodesOfJob(x) == {jobs[x].nodes[y] : y \in 1..Len(jobs[x].nodes)}

\* C38: every job emitted for a pair (u, v) is the nodes of partition u
\* followed by the nodes of partition v, holds no node of a third partition
\* and no node twice, also when u takes part in several qualifying pairs.
C38_JobIsTheTwoPartitions ==
    ppc = "broken" =>
        \A x \in PairJobs :
            /\ jobs[x].nodes = PartArray(jobs[x].pair[1])
                                 \o PartArray(jobs[x].pair[2])
            /\ NodesOfJob(x) \subseteq parts[jobs[x].pair[1] + 1]
                                         \cup parts[jobs[x].pair[2] + 1]
            /\ Cardinality(NodesOfJob(x)) = Len(jobs[x].nodes)

\* C38 (part that holds): a job for (u, v) holds every node of u and of v
\* and no node twice.
C38_JobHoldsBothNoNodeTwice ==
    ppc = "broken" =>
        \A x \in PairJobs :
            /\ parts[jobs[x].pair[1] + 1] \cup parts[jobs[x].pair[2] + 1]
                 \subseteq NodesOfJob(x)
            /\ Cardinality(NodesOfJob(x)) = Len(jobs[x].nodes)

\* C38 (part that holds): when no partition is the first of two qualifying
\* pairs, every pair job is exactly its two partitions.
C38_FirstOnceJobIsTheTwoPartitions ==
    (ppc = "broken"
       /\ \A x, y \in PairJobs : jobs[x].pair[1] = jobs[y].pair[1] => x = y) =>
        \A x \in PairJobs :
            jobs[x].nodes = PartArray(jobs[x].pair[1])
                              \o PartArray(jobs[x].pair[2])

\* a partition is the second of one qualifying pair and the first of another
C38_ChainMet ==
    /\ ppc = "broken"
    /\ \E x, y \in PairJobs : jobs[x].pair[2] = jobs[y].pair[1]

\* a partition is the first of two qualifying pairs
C38_FirstOfTwoPairs ==
    /\ ppc = "broken"
    /\ \E x, y \in PairJobs : x # y /\ jobs[x].pair[1] = jobs[y].pair[1]

\* ------------------------------------------------------------------------
\* C39: the node table and the graph's nodes.
\* C39: the node table has one tuple per graph node after every add_to_graph
\* call and every site insertion.
C39_OneTuplePerNode == Len(node_to_name) = G.n

\* C39: nodes are never removed and the tuple appended for a node stays at
\* the node's index.
C39_NodesNeverRemoved ==
    [][/\ G'.n >= G.n
       /\ Len(node_to_name') >= Len(node_to_name)
       /\ \A x \in 1..Len(node_to_name) : node_to_name'[x] = node_to_name[x]]_vars

\* C39: the node a site was given indexes the tuple appended at the site's
\* insertion, the node a read registered for its template indexes the tuple
\* that carries the read's name and flag.
C39_NodeIndexesItsTuple ==
    /\ \A x \in DOMAIN site_adder.sites_index_r :
          site_adder.sites_index_r[x] # -1 =>
              /\ site_adder.sites_index_r[x] < Len(node_to_name)
              /\ node_to_name[site_adder.sites_index_r[x] + 1]
                   = <<0, 0, 0, 0, 0, 0, 0>>
    /\ \A q \in DOMAIN template_edges :
          \A x \in 1..Len(template_edges[q]) :
              LET t == template_edges[q][x]
              IN /\ t[2] < Len(node_to_name)
                 /\ node_to_name[t[2] + 1][1] = q
                 /\ node_to_name[t[2] + 1][2] = t[3]

\* C39: after every add_to_graph call and every site insertion the node
\* table has exactly one tuple per graph node, and every node id handed out
\* indexes the tuple appended for that node.
C39_NodeTableMatchesGraph == C39_OneTuplePerNode /\ C39_NodeIndexesItsTuple

\* a site node and a read node have both been created
C39_SiteAndReadNode ==
    /\ G.n >= 2
    /\ Len(node_to_name) = G.n
    /\ \E x \in 1..G.n : node_to_name[x] = <<0, 0, 0, 0, 0, 0, 0>>
    /\ \E x \in 1..G.n : node_to_name[x][5] # 0

\* ------------------------------------------------------------------------
\* C40: get_insert_params on more than 100 insert sizes.
ManyInserts == BagLen(inserts, DOMAIN inserts) > MinInserts

AboveMedian == {v \in DOMAIN inserts : inserts[v] > 0 /\ 2 * v > median(inserts)}

\* C40: get_insert_params returns a (centre, stdev) pair for every list of
\* more than 100 insert sizes, also when no value lies above the median.
C40_AlwaysReturnsPair == ManyInserts => get_insert_params(inserts).ok

\* C40 (part that holds): get_insert_params returns a pair exactly when some
\* value lies above the median.
C40_ReturnsPairIffAboveMedian ==
    ManyInserts => (get_insert_params(inserts).ok <=> AboveMedian # {})

\* C40 (part that holds): when the upper deviations are not empty the trim
\* keeps the median's value, so it never removes every value.
C40_NeverTrimsAll ==
    (ManyInserts /\ unscaled_upper_mad(inserts).ok) =>
        LET m == unscaled_upper_mad(inserts)
        IN \E v \in DOMAIN inserts :
              inserts[v] > 0 /\ 4 * v < 2 * m.med2 + Mads * m.umad4

\* more than 100 inserts, all equal, have been handed to get_insert_params
C40_AllEqualMet ==
    /\ ManyInserts
    /\ ipc = "failed"
    /\ Cardinality({v \in DOMAIN inserts : inserts[v] > 0}) = 1

\* more than 100 inserts with a value above the median gave a pair
C40_PairReturnedMet ==
    /\ ManyInserts
    /\ ipc = "returned"
    /\ iargs.insert_median = -1
    /\ AboveMedian # {}

====
